---- MODULE Spec2Model ----
(***************************************************************************)
(* Offline-first cache and synchronisation engine of the tour plan app.    *)
(*                                                                         *)
(*   LocalStorage  (js/auth.js)       the cache document and its queue     *)
(*   APIClient     (api client)       mutating calls and processSyncQueue  *)
(*   TourPlanApp   (js/utils.js)      the replay triggers                  *)
(*   AuthManager   (js/auth.js)       the session and the admin checks     *)
(*   plans/set, users/add, ...        the serverless handlers              *)
(*                                                                         *)
(* Specifications                                                          *)
(*   Spec       the six mutating calls, the replay triggers, the responses *)
(*   SpecPlan   the setPlan path alone, with more item ids                 *)
(*   SpecStore  the Local Store called directly, writes may fail           *)
(*   SpecRead   getUsers, getPlans, getAdminOverride beside user calls     *)
(*   SpecFetch  one fetchWithRetry call, attempt by attempt                *)
(*   SpecWeek   computeWeekStartIST, client and login function            *)
(*   SpecBoot   creation, import and reading of the persisted document     *)
(*   SpecQueue  the replay of a queue an earlier session left behind       *)
(*   SpecQueueFair  SpecQueue with the periodic trigger kept running       *)
(*   SpecOverride   setAdminOverride and clearAdminOverride with replay    *)
(*   SpecServer     the handlers of concurrent requests, await by await    *)
(*   SpecAuth       AuthManager: login, logout, addUser, removeUser        *)
(*                                                                         *)
(* Conventions of the model                                                *)
(*  - A JavaScript object is a function whose DOMAIN is its key set.       *)
(*  - Timestamps (item.timestamp, adminOverride.timestamp) are left out;   *)
(*    lastSync holds the number of the pass that wrote it.                 *)
(*  - Item ids (Date.now() + Math.random()) are drawn from a counter.      *)
(*  - The platform key/value store behind getData/saveData keeps what is   *)
(*    written to it; a failing write is the flag passed to saveData.       *)
(*  - A step of the model is one run-to-completion segment of the event    *)
(*    loop: code runs from one network await to the next without any       *)
(*    other handler in between.                                            *)
(***************************************************************************)
EXTENDS Integers, Sequences, FiniteSets, TLC

\* ------------------------------------------------------------------ bounds
MaxIds == 3
MaxPlanIds == 5
MaxPasses == 2
MaxInflight == 1
MaxFaults == 1

\* ------------------------------------------------------- program constants
MaxAttempts == 5

Null == "null"
\* null where the other values are objects (adminOverride, response.override)
NullObj == [null |-> TRUE]
NoReq == [ep |-> "none"]
Idle == [pc |-> "idle"]

\* ---------------------------------------------------------- input domains
W1 == "20250811"
D1 == "2025-08-11"
LA == <<"X", "", "", "", "", "", "">>
LB == <<"Y", "", "", "", "", "", "">>
Weeks == {W1}
PlanUsers == {"Sahil Sharma"}
PlanInputs == {LA, LB}
NewUsers == {"Asha Rao"}
Admin == "Sudhir Kumar"

\* ----------------------------------------------------------- JS objects
EmptyObj == [k \in {} |-> Null]

Has(obj, k) == k \in DOMAIN obj

Put(obj, k, v) == [x \in (DOMAIN obj) \cup {k} |-> IF x = k THEN v ELSE obj[x]]

Delete(obj, k) == [x \in (DOMAIN obj) \ {k} |-> obj[x]]

\* ------------------------------------------------------------ LocalStorage
defaultData ==
    [users |-> [n \in {"Sahil Sharma", "Vijay Kumar", "Pawan Gupta", "Sunil Suri", "Sudhir Kumar"} |->
                  CASE n = "Sahil Sharma" -> [password |-> "8371", isAdmin |-> FALSE]
                    [] n = "Vijay Kumar"  -> [password |-> "4926", isAdmin |-> FALSE]
                    [] n = "Pawan Gupta"  -> [password |-> "7149", isAdmin |-> FALSE]
                    [] n = "Sunil Suri"   -> [password |-> "3652", isAdmin |-> FALSE]
                    [] n = "Sudhir Kumar" -> [password |-> "9211", isAdmin |-> TRUE]],
     plans |-> EmptyObj,
     customLocations |-> EmptyObj,
     adminOverride |-> NullObj,
     syncQueue |-> <<>>,
     lastSync |-> NullObj]

\* saveData(data): the write either replaces the persisted document or,
\* when setItem throws, leaves it as it was (the error is swallowed).
saveData(persisted, data, ok) == IF ok THEN data ELSE persisted

\* A slip: the item is put at the head of the queue (unshift for push).
addToSyncQueue_front(d, id, action, payload, ok) ==
    saveData(d,
             [d EXCEPT !.syncQueue = <<[id |-> id, action |-> action,
                                        payload |-> payload, attempts |-> 0]>> \o @],
             ok)

\* addToSyncQueue(action, payload): re-reads the persisted document, pushes
\* one item with attempts 0 and saves.
addToSyncQueue(d, id, action, payload, ok) ==
    saveData(d,
             [d EXCEPT !.syncQueue = Append(@, [id |-> id, action |-> action,
                                                payload |-> payload, attempts |-> 0])],
             ok)

LocalStorage_setUser(d, id, name, userData, s) ==
    addToSyncQueue(saveData(d, [d EXCEPT !.users = Put(@, name, userData)], s[1]),
                   id, "user_update", [name |-> name, userData |-> userData], s[2])

\* A slip: the custom locations of the user are left behind.
LocalStorage_removeUser_nocustom(d, id, name, s) ==
    LET plans1 == [w \in DOMAIN d.plans |-> Delete(d.plans[w], name)]
        data == [d EXCEPT !.users = Delete(@, name),
                          !.plans = plans1]
    IN addToSyncQueue(saveData(d, data, s[1]), id, "user_delete", [name |-> name], s[2])

\* removeUser(name): the user, the user's entry in the plans of every week
\* and the user's custom locations go in one saveData; the enqueue follows.
LocalStorage_removeUser(d, id, name, s) ==
    LET plans1 == [w \in DOMAIN d.plans |-> Delete(d.plans[w], name)]
        data == [d EXCEPT !.users = Delete(@, name),
                          !.plans = plans1,
                          !.customLocations = Delete(@, name)]
    IN addToSyncQueue(saveData(d, data, s[1]), id, "user_delete", [name |-> name], s[2])

getPlansForWeek(d, weekStartId) ==
    IF Has(d.plans, weekStartId) THEN d.plans[weekStartId] ELSE EmptyObj

LocalStorage_setPlan(d, id, weekStartId, userName, locations, s) ==
    LET week == Put(getPlansForWeek(d, weekStartId), userName, locations)
        data == [d EXCEPT !.plans = Put(@, weekStartId, week)]
    IN addToSyncQueue(saveData(d, data, s[1]), id, "plan_update",
                      [weekStartId |-> weekStartId, userName |-> userName,
                       locations |-> locations], s[2])

LocalStorage_addCustomLocation(d, id, userName, weekStartId, dayDate, location, s) ==
    LET byUser == IF Has(d.customLocations, userName) THEN d.customLocations[userName] ELSE EmptyObj
        byWeek == IF Has(byUser, weekStartId) THEN byUser[weekStartId] ELSE EmptyObj
        data == [d EXCEPT !.customLocations =
                    Put(@, userName, Put(byUser, weekStartId, Put(byWeek, dayDate, location)))]
    IN addToSyncQueue(saveData(d, data, s[1]), id, "custom_location_add",
                      [userName |-> userName, weekStartId |-> weekStartId,
                       dayDate |-> dayDate, location |-> location], s[2])

LocalStorage_setAdminOverride(d, id, adminName, overrideWeekStart, s) ==
    LET data == [d EXCEPT !.adminOverride =
                    [adminName |-> adminName, overrideWeekStart |-> overrideWeekStart]]
    IN addToSyncQueue(saveData(d, data, s[1]), id, "admin_override",
                      [adminName |-> adminName, overrideWeekStart |-> overrideWeekStart], s[2])

LocalStorage_clearAdminOverride(d, id, s) ==
    addToSyncQueue(saveData(d, [d EXCEPT !.adminOverride = NullObj], s[1]),
                   id, "admin_override_clear", EmptyObj, s[2])

\* A slip: only the head of the queue is read.
getSyncQueue_headOnly(d) ==
    IF Len(d.syncQueue) = 0 THEN <<>> ELSE <<d.syncQueue[1]>>

\* A slip: the queue is read newest first.
getSyncQueue_newestFirst(d) ==
    [k \in DOMAIN d.syncQueue |-> d.syncQueue[Len(d.syncQueue) + 1 - k]]

getSyncQueue(d) == d.syncQueue

\* A slip: the filtered queue is not written back.
removeSyncItem_notSaved(d, itemId) == d

removeSyncItem(d, itemId) ==
    LET Keep(item) == item.id # itemId
    IN [d EXCEPT !.syncQueue = SelectSeq(@, Keep)]

updateSyncAttempts(d, itemId, attempts) ==
    [d EXCEPT !.syncQueue =
        [k \in DOMAIN @ |-> IF @[k].id = itemId THEN [@[k] EXCEPT !.attempts = attempts] ELSE @[k]]]

\* data.lastSync = timestamp, an ISO string: here the record of the number of
\* the pass that wrote it.
setLastSync(d, timestamp) == [d EXCEPT !.lastSync = [pass |-> timestamp]]

\* ------------------------------------------------------ serverless handlers
\* A sheet is the sequence of its rows.
FourDigits == {"8371", "4926", "7149", "3652", "9211", "1234"}

seedRows ==
    << [name |-> "Sahil Sharma", password |-> "8371", is_admin |-> FALSE],
       [name |-> "Vijay Kumar",  password |-> "4926", is_admin |-> FALSE],
       [name |-> "Pawan Gupta",  password |-> "7149", is_admin |-> FALSE],
       [name |-> "Sunil Suri",   password |-> "3652", is_admin |-> FALSE],
       [name |-> "Sudhir Kumar", password |-> "9211", is_admin |-> TRUE] >>

Falsy(v) == v = Null \/ v = ""

FirstIndex(rows, Match(_)) ==
    IF \E k \in DOMAIN rows : Match(rows[k])
    THEN CHOOSE k \in DOMAIN rows : Match(rows[k]) /\ \A j \in 1..(k - 1) : ~Match(rows[j])
    ELSE 0

\* A slip: an existing row is found but its new values are never saved.
plansSetHandler_keep(rem, body) ==
    IF Falsy(body.weekStart) \/ Falsy(body.name) THEN [remote |-> rem, status |-> 400]
    ELSE IF Len(body.locationsArray) # 7 THEN [remote |-> rem, status |-> 400]
    ELSE LET Match(row) == row.week_start = body.weekStart /\ row.name = body.name
             k == FirstIndex(rem.plans, Match)
             planData == [week_start |-> body.weekStart, name |-> body.name,
                          days |-> body.locationsArray]
         IN [remote |-> [rem EXCEPT !.plans = IF k = 0 THEN Append(@, planData) ELSE @],
             status |-> 200]

\* POST plans/set: update the first row of (week_start, name) or add a row.
plansSetHandler(rem, body) ==
    IF Falsy(body.weekStart) \/ Falsy(body.name) THEN [remote |-> rem, status |-> 400]
    ELSE IF Len(body.locationsArray) # 7 THEN [remote |-> rem, status |-> 400]
    ELSE LET Match(row) == row.week_start = body.weekStart /\ row.name = body.name
             k == FirstIndex(rem.plans, Match)
             planData == [week_start |-> body.weekStart, name |-> body.name,
                          days |-> body.locationsArray]
         IN [remote |-> [rem EXCEPT !.plans = IF k = 0 THEN Append(@, planData)
                                              ELSE [@ EXCEPT ![k] = planData]],
             status |-> 200]

\* POST plans/get: the plans of a week by name; a later row of the same name
\* overwrites an earlier one.
plansGetHandler(rem, weekStart) ==
    LET Rows(n) == {k \in DOMAIN rem.plans :
                        rem.plans[k].week_start = weekStart /\ rem.plans[k].name = n}
        Last(n) == CHOOSE k \in Rows(n) : \A j \in Rows(n) : j <= k
        names == {rem.plans[k].name : k \in {j \in DOMAIN rem.plans : rem.plans[j].week_start = weekStart}}
    IN [n \in names |-> rem.plans[Last(n)].days]

\* POST users/add: 409 when a row of that name exists.
usersAddHandler(rem, body) ==
    IF Falsy(body.name) \/ Falsy(body.password) THEN [remote |-> rem, status |-> 400]
    ELSE IF body.password \notin FourDigits THEN [remote |-> rem, status |-> 400]
    ELSE IF \E k \in DOMAIN rem.users : rem.users[k].name = body.name
         THEN [remote |-> rem, status |-> 409]
    ELSE [remote |-> [rem EXCEPT !.users = Append(@, [name |-> body.name,
                                                       password |-> body.password,
                                                       is_admin |-> body.isAdmin])],
          status |-> 200]

\* POST users/delete: the first users row of the name, and every plans and
\* custom_locations row of the name.
usersDeleteHandler(rem, body) ==
    IF Falsy(body.name) THEN [remote |-> rem, status |-> 400]
    ELSE LET IsUser(row) == row.name = body.name
             Other(row) == row.name # body.name
             k == FirstIndex(rem.users, IsUser)
             users1 == IF k = 0 THEN rem.users
                       ELSE SubSeq(rem.users, 1, k - 1) \o SubSeq(rem.users, k + 1, Len(rem.users))
         IN [remote |-> [rem EXCEPT !.users = users1,
                                    !.plans = SelectSeq(@, Other),
                                    !.custom = SelectSeq(@, Other)],
             status |-> 200]

\* POST custom/add: always adds a row.
customAddHandler(rem, body) ==
    IF Falsy(body.name) \/ Falsy(body.weekStart) \/ Falsy(body.dayDate) \/ Falsy(body.location)
    THEN [remote |-> rem, status |-> 400]
    ELSE [remote |-> [rem EXCEPT !.custom = Append(@, [name |-> body.name,
                                                        week_start |-> body.weekStart,
                                                        day_date |-> body.dayDate,
                                                        location |-> body.location])],
          status |-> 200]

\* A slip: the rows already there are not deleted before the new one is added.
overridePostHandler_keepsRows(rem, body) ==
    IF Falsy(body.overrideWeekStart) THEN [remote |-> [rem EXCEPT !.overrides = <<>>], status |-> 200]
    ELSE IF Falsy(body.adminName) THEN [remote |-> rem, status |-> 400]
    ELSE [remote |-> [rem EXCEPT !.overrides =
                         Append(@, [admin_name |-> body.adminName,
                                    override_week_start |-> body.overrideWeekStart])],
          status |-> 200]

\* POST override: a null or empty overrideWeekStart deletes every row; a set
\* deletes every row and adds one.
overridePostHandler(rem, body) ==
    IF Falsy(body.overrideWeekStart) THEN [remote |-> [rem EXCEPT !.overrides = <<>>], status |-> 200]
    ELSE IF Falsy(body.adminName) THEN [remote |-> rem, status |-> 400]
    ELSE [remote |-> [rem EXCEPT !.overrides = << [admin_name |-> body.adminName,
                                                   override_week_start |-> body.overrideWeekStart] >>],
          status |-> 200]

Handler(rem, req) ==
    CASE req.ep = "plans/set"    -> plansSetHandler(rem, req.body)
      [] req.ep = "users/add"    -> usersAddHandler(rem, req.body)
      [] req.ep = "users/delete" -> usersDeleteHandler(rem, req.body)
      [] req.ep = "custom/add"   -> customAddHandler(rem, req.body)
      [] req.ep = "override"     -> overridePostHandler(rem, req.body)

\* ---------------------------------------------------------------- network
\* What one fetchWithRetry call comes to:
\*   "deliver"  the handler runs; 2xx returns the body, non-2xx throws
\*   "fail"     no attempt reaches the handler; throws after the last retry
\*   "notok"    a 2xx answer whose body has no true ok (not from a handler of
\*              this repository, which pair ok:false with a non-2xx status)
Net == {"deliver", "fail", "notok"}

Outcome(rem, req, net) ==
    CASE net = "deliver" -> IF Handler(rem, req).status = 200 THEN "ok" ELSE "throw"
      [] net = "fail"    -> "throw"
      [] net = "notok"   -> "notok"

RemoteAfter(rem, req, net) == IF net = "deliver" THEN Handler(rem, req).remote ELSE rem

\* --------------------------------------------------------------- APIClient
\* Every mutating call writes the Local Store first (which enqueues), then
\* returns at once when offline, else issues its request.  The value is the
\* document after the synchronous part and the request issued, if any.
AllSaved == <<TRUE, TRUE>>

\* A slip: the offline return is missing, the request is always issued.
APIClient_setPlan_ungated(d, id, online, weekStartId, userName, locations, s) ==
    [doc |-> LocalStorage_setPlan(d, id, weekStartId, userName, locations, s),
     req |-> [ep |-> "plans/set",
              body |-> [weekStart |-> weekStartId, name |-> userName,
                        locationsArray |-> locations]]]

APIClient_setPlan(d, id, online, weekStartId, userName, locations, s) ==
    [doc |-> LocalStorage_setPlan(d, id, weekStartId, userName, locations, s),
     req |-> IF ~online THEN NoReq
             ELSE [ep |-> "plans/set",
                   body |-> [weekStart |-> weekStartId, name |-> userName,
                             locationsArray |-> locations]]]

APIClient_addUser(d, id, online, name, password, isAdmin, s) ==
    [doc |-> LocalStorage_setUser(d, id, name, [password |-> password, isAdmin |-> isAdmin], s),
     req |-> IF ~online THEN NoReq
             ELSE [ep |-> "users/add",
                   body |-> [name |-> name, password |-> password, isAdmin |-> isAdmin]]]

\* A slip: online, the request is issued without the local write.
APIClient_deleteUser_remoteOnly(d, id, online, name, s) ==
    [doc |-> IF online THEN d ELSE LocalStorage_removeUser(d, id, name, s),
     req |-> IF ~online THEN NoReq
             ELSE [ep |-> "users/delete", body |-> [name |-> name]]]

APIClient_deleteUser(d, id, online, name, s) ==
    [doc |-> LocalStorage_removeUser(d, id, name, s),
     req |-> IF ~online THEN NoReq
             ELSE [ep |-> "users/delete", body |-> [name |-> name]]]

APIClient_addCustomLocation(d, id, online, userName, weekStartId, dayDate, location, s) ==
    [doc |-> LocalStorage_addCustomLocation(d, id, userName, weekStartId, dayDate, location, s),
     req |-> IF ~online THEN NoReq
             ELSE [ep |-> "custom/add",
                   body |-> [name |-> userName, weekStart |-> weekStartId,
                             dayDate |-> dayDate, location |-> location]]]

APIClient_setAdminOverride(d, id, online, adminName, overrideWeekStart, s) ==
    [doc |-> LocalStorage_setAdminOverride(d, id, adminName, overrideWeekStart, s),
     req |-> IF ~online THEN NoReq
             ELSE [ep |-> "override",
                   body |-> [adminName |-> adminName, overrideWeekStart |-> overrideWeekStart]]]

APIClient_clearAdminOverride(d, id, online, s) ==
    [doc |-> LocalStorage_clearAdminOverride(d, id, s),
     req |-> IF ~online THEN NoReq
             ELSE [ep |-> "override",
                   body |-> [adminName |-> Null, overrideWeekStart |-> Null]]]

\* The ok of what a mutating call returns: the parsed body's ok when the
\* fetch returns, and ok:true both when offline and when the fetch throws.
ReturnOk(outcome) == outcome # "notok"

KnownActions == {"user_update", "user_delete", "plan_update", "custom_location_add",
                 "admin_override", "admin_override_clear"}

\* The switch of processSyncQueue: the APIClient call an item is replayed by.
\* An unknown action makes no call and leaves the document alone.
Dispatch(d, id, online, item) ==
    CASE item.action = "user_update" ->
            APIClient_addUser(d, id, online, item.payload.name,
                              item.payload.userData.password, item.payload.userData.isAdmin, AllSaved)
      [] item.action = "user_delete" ->
            APIClient_deleteUser(d, id, online, item.payload.name, AllSaved)
      [] item.action = "plan_update" ->
            APIClient_setPlan(d, id, online, item.payload.weekStartId,
                              item.payload.userName, item.payload.locations, AllSaved)
      [] item.action = "custom_location_add" ->
            APIClient_addCustomLocation(d, id, online, item.payload.userName,
                                        item.payload.weekStartId, item.payload.dayDate,
                                        item.payload.location, AllSaved)
      [] item.action = "admin_override" ->
            APIClient_setAdminOverride(d, id, online, item.payload.adminName,
                                       item.payload.overrideWeekStart, AllSaved)
      [] item.action = "admin_override_clear" ->
            APIClient_clearAdminOverride(d, id, online, AllSaved)
      [] OTHER -> [doc |-> d, req |-> NoReq]

\* Lines 475-485: what the pass does with an item once its call has returned.
\* item is the element of the snapshot read at the start of the pass.
AfterItem(d, item, success) ==
    IF success THEN removeSyncItem(d, item.id)
    ELSE LET d1 == updateSyncAttempts(d, item.id, item.attempts + 1)
         IN IF item.attempts >= MaxAttempts THEN removeSyncItem(d1, item.id) ELSE d1

\* The loop of processSyncQueue from item i of the snapshot on, up to the next
\* network await or to the end of the pass.  An item whose call returns
\* without a request (client offline, or unknown action) is handled at once.
\* lg collects, per handled item, the outcome the pass saw.
RECURSIVE RunQueue(_, _, _, _, _, _, _)
RunQueue(d, id, lg, queue, i, online, p) ==
    IF i > Len(queue)
    THEN [doc |-> setLastSync(d, p), nextId |-> id, log |-> lg, i |-> i,
          req |-> NoReq, pc |-> "done"]
    ELSE LET item == queue[i]
             known == item.action \in KnownActions
             r == Dispatch(d, id, online, item)
             id1 == IF known THEN id + 1 ELSE id
         IN IF r.req # NoReq
            THEN [doc |-> r.doc, nextId |-> id1, log |-> lg, i |-> i,
                  req |-> r.req, pc |-> "await"]
            ELSE RunQueue(AfterItem(r.doc, item, TRUE), id1,
                          lg \cup {[id |-> item.id, pass |-> p, attempts |-> item.attempts,
                                    outcome |-> IF known THEN "offline" ELSE "unknown"]},
                          queue, i + 1, online, p)

\* A slip: the pass starts whether or not the client is online.
processSyncQueue_ignoresOffline(cs, online, trigger) ==
    LET queue == getSyncQueue(cs.doc)
        p == Len(cs.passes) + 1
        r == RunQueue(cs.doc, cs.nextId, cs.log, queue, 1, online, p)
    IN IF Len(queue) = 0 THEN cs
       ELSE [doc |-> r.doc,
             nextId |-> r.nextId,
             passes |-> Append(cs.passes,
                               [q |-> queue, i |-> r.i, pc |-> r.pc, req |-> r.req,
                                trigger |-> trigger, allOk |-> FALSE, quiet |-> FALSE,
                                after |-> FALSE]),
             calls |-> cs.calls,
             sent |-> IF r.req = NoReq THEN cs.sent
                      ELSE Append(cs.sent, [req |-> r.req, pass |-> p, item |-> queue[r.i].id]),
             log |-> r.log]

\* processSyncQueue(), from the call to its first await (or to its return).
\* cs is the client state [doc, nextId, passes, calls, sent, log]; trigger
\* names the caller, for the history.
processSyncQueue(cs, online, trigger) ==
    IF ~online THEN cs
    ELSE LET queue == getSyncQueue(cs.doc)
             p == Len(cs.passes) + 1
             r == RunQueue(cs.doc, cs.nextId, cs.log, queue, 1, online, p)
             InFlight(k) == cs.passes[k].pc = "await"
             Clean(k) == cs.passes[k].pc = "done" /\ cs.passes[k].allOk /\ cs.passes[k].quiet
         IN IF Len(queue) = 0 THEN cs
            ELSE [doc |-> r.doc,
                  nextId |-> r.nextId,
                  passes |-> Append([k \in DOMAIN cs.passes |-> [cs.passes[k] EXCEPT !.quiet = FALSE]],
                                    [q |-> queue, i |-> r.i, pc |-> r.pc, req |-> r.req,
                                     trigger |-> trigger,
                                     allOk |-> TRUE,
                                     quiet |-> cs.calls = {} /\ \A k \in DOMAIN cs.passes : ~InFlight(k),
                                     after |-> \E k \in DOMAIN cs.passes : Clean(k)]),
                  calls |-> cs.calls,
                  sent |-> IF r.req = NoReq THEN cs.sent
                           ELSE Append(cs.sent, [req |-> r.req, pass |-> p, item |-> queue[r.i].id]),
                  log |-> r.log]

\* ------------------------------------------------------------ AuthManager
\* new AuthManager()
NewAuthManager == [currentUser |-> Null, isLoggedIn |-> FALSE, isAdmin |-> FALSE]

\* ------------------------------------------------------------------- state
VARIABLES
    isOnline,   \* APIClient.isOnline / navigator.onLine
    doc,        \* the persisted cache document
    nextId,     \* the next fresh item id
    passes,     \* the processSyncQueue calls made so far, in order
    calls,      \* user-level mutating calls awaiting their response
    remote,     \* the sheets of the remote store
    sent,       \* history: the requests issued, in order
    log,        \* history: the outcome each pass saw for each item it handled
    ucalls,     \* history: the user-level mutating calls, by the id they enqueued
    faults,     \* history: the number of requests that were not delivered
    cap,        \* the bound on item ids of the specification being checked
    handlers,   \* the server handler invocations followed from their read to their write
    auth,       \* AuthManager: currentUser, isLoggedIn, isAdmin
    lastOp,     \* history: the last Local Store call made directly, with its outcome
    reads,      \* the read calls of APIClient (getUsers, getPlans, getAdminOverride)
    fetch,      \* the fetchWithRetry call followed attempt by attempt
    week        \* the computeWeekStartIST calls followed step by step

\* The variables of the parts that are followed on their own.
aside == <<lastOp, reads, fetch, week>>

vars == <<isOnline, doc, nextId, passes, calls, remote, sent, log, ucalls, faults, cap, auth, handlers, aside>>

Start ==
    /\ isOnline \in BOOLEAN
    /\ doc = defaultData
    /\ nextId = 1
    /\ passes = <<>>
    /\ calls = {}
    /\ remote = [users |-> seedRows, plans |-> <<>>, custom |-> <<>>, overrides |-> <<>>]
    /\ sent = <<>>
    /\ log = {}
    /\ ucalls = EmptyObj
    /\ faults = 0
    /\ lastOp = Idle
    /\ reads = <<>>
    /\ fetch = Idle
    /\ handlers = <<>>
    /\ auth = NewAuthManager
    /\ week = Idle

ClientState == [doc |-> doc, nextId |-> nextId, passes |-> passes, calls |-> calls,
                sent |-> sent, log |-> log]

SetClient(cs) ==
    /\ cs.nextId <= cap + 1
    /\ Len(cs.passes) <= MaxPasses
    /\ doc' = cs.doc
    /\ nextId' = cs.nextId
    /\ passes' = cs.passes
    /\ sent' = cs.sent
    /\ log' = cs.log

\* The network answers a request: deliveries are free, faults are counted.
Deliver(net) ==
    /\ net # "deliver" => faults < MaxFaults
    /\ faults' = IF net = "deliver" THEN faults ELSE faults + 1

\* --------------------------------------------------------- replay triggers
\* The 'online' event: the listener of APIClient sets isOnline and calls
\* processSyncQueue, then the listener of TourPlanApp calls it again.
OnlineEvent ==
    /\ ~isOnline
    /\ isOnline' = TRUE
    /\ SetClient(processSyncQueue(processSyncQueue(ClientState, TRUE, "online"), TRUE, "online"))
    /\ UNCHANGED <<calls, remote, ucalls, faults, cap, auth, handlers, aside>>

OfflineEvent ==
    /\ isOnline
    /\ isOnline' = FALSE
    /\ UNCHANGED <<doc, nextId, passes, calls, remote, sent, log, ucalls, faults, cap, auth, handlers, aside>>

\* App start, the periodic timer and forcSync: one call of processSyncQueue
\* when online.
SyncTrigger ==
    /\ isOnline
    /\ Len(getSyncQueue(doc)) > 0
    /\ SetClient(processSyncQueue(ClientState, isOnline, "timer"))
    /\ UNCHANGED <<isOnline, calls, remote, ucalls, faults, cap, auth, handlers, aside>>

\* The response to the request a pass awaits: the rest of the iteration for
\* the item, then the loop up to the next await.
PassResponse(p, net) ==
    /\ p \in DOMAIN passes
    /\ passes[p].pc = "await"
    /\ LET pass == passes[p]
           item == pass.q[pass.i]
           outcome == Outcome(remote, pass.req, net)
           d1 == AfterItem(doc, item, ReturnOk(outcome))
           lg == log \cup {[id |-> item.id, pass |-> p, attempts |-> item.attempts,
                            outcome |-> outcome]}
           r == RunQueue(d1, nextId, lg, pass.q, pass.i + 1, isOnline, p)
           offline == \E k \in (pass.i + 1)..(r.i - 1) : pass.q[k].action \in KnownActions
       IN /\ remote' = RemoteAfter(remote, pass.req, net)
          /\ SetClient([doc |-> r.doc, nextId |-> r.nextId, log |-> r.log,
                        passes |-> [passes EXCEPT ![p] =
                                       [@ EXCEPT !.i = r.i, !.pc = r.pc, !.req = r.req,
                                                 !.allOk = @ /\ outcome = "ok" /\ ~offline]],
                        sent |-> IF r.req = NoReq THEN sent
                                 ELSE Append(sent, [req |-> r.req, pass |-> p,
                                                    item |-> pass.q[r.i].id])])
    /\ Deliver(net)
    /\ UNCHANGED <<isOnline, calls, ucalls, cap, auth, handlers, aside>>

\* ------------------------------------------------------------ user actions
\* A mutating call of the UI: r is the value of the APIClient operator.
UserCall(r, action, payload) ==
    /\ nextId <= cap
    /\ r.req # NoReq => Cardinality(calls) < MaxInflight
    /\ doc' = r.doc
    /\ nextId' = nextId + 1
    /\ calls' = IF r.req = NoReq THEN calls ELSE calls \cup {[id |-> nextId, req |-> r.req]}
    /\ ucalls' = Put(ucalls, nextId, [action |-> action, payload |-> payload, online |-> isOnline,
                                      outcome |-> IF r.req = NoReq THEN "offline" ELSE "pending"])
    /\ passes' = [k \in DOMAIN passes |-> [passes[k] EXCEPT !.quiet = FALSE]]
    /\ UNCHANGED <<isOnline, remote, sent, log, faults, cap, auth, handlers, aside>>

\* handleSaveWeek: the locations come from the seven selects of the form.
UserSetPlan(weekStartId, userName, locations) ==
    /\ Len(locations) = 7
    /\ UserCall(APIClient_setPlan(doc, nextId, isOnline, weekStartId, userName, locations, AllSaved),
                "plan_update",
                [weekStartId |-> weekStartId, userName |-> userName, locations |-> locations])

\* AuthManager.addUser: a 4-digit password and a name not yet in the store.
UserAddUser(name, password, isAdmin) ==
    /\ password \in FourDigits
    /\ ~Has(doc.users, name)
    /\ UserCall(APIClient_addUser(doc, nextId, isOnline, name, password, isAdmin, AllSaved),
                "user_update",
                [name |-> name, userData |-> [password |-> password, isAdmin |-> isAdmin]])

\* AuthManager.removeUser: any name but the logged-in admin's.
UserDeleteUser(name) ==
    /\ name # Admin
    /\ UserCall(APIClient_deleteUser(doc, nextId, isOnline, name, AllSaved),
                "user_delete", [name |-> name])

\* handleAddCustomLocation: a non-empty location.
UserAddCustomLocation(userName, weekStartId, dayDate, location) ==
    /\ ~Falsy(location)
    /\ UserCall(APIClient_addCustomLocation(doc, nextId, isOnline, userName, weekStartId,
                                            dayDate, location, AllSaved),
                "custom_location_add",
                [userName |-> userName, weekStartId |-> weekStartId, dayDate |-> dayDate,
                 location |-> location])

\* handleWeekOverride: a non-empty date.
UserSetAdminOverride(adminName, overrideWeekStart) ==
    /\ ~Falsy(overrideWeekStart)
    /\ UserCall(APIClient_setAdminOverride(doc, nextId, isOnline, adminName, overrideWeekStart,
                                           AllSaved),
                "admin_override",
                [adminName |-> adminName, overrideWeekStart |-> overrideWeekStart])

\* handleResetWeek.
UserClearAdminOverride ==
    /\ UserCall(APIClient_clearAdminOverride(doc, nextId, isOnline, AllSaved),
                "admin_override_clear", EmptyObj)

\* The response to the request of a user-level call: the call returns it (or
\* its ok:true fallback) and touches neither the document nor the queue.
UserResponse(id, net) ==
    /\ \E c \in calls : c.id = id
    /\ LET c == CHOOSE x \in calls : x.id = id
       IN /\ calls' = calls \ {c}
          /\ remote' = RemoteAfter(remote, c.req, net)
          /\ ucalls' = [ucalls EXCEPT ![id].outcome = Outcome(remote, c.req, net)]
    /\ Deliver(net)
    /\ UNCHANGED <<isOnline, doc, nextId, passes, sent, log, cap, auth, handlers, aside>>

Next ==
    \/ OnlineEvent
    \/ OfflineEvent
    \/ SyncTrigger
    \/ \E p \in 1..MaxPasses, net \in Net : PassResponse(p, net)
    \/ \E w \in Weeks, u \in PlanUsers, l \in PlanInputs : UserSetPlan(w, u, l)
    \/ \E n \in NewUsers : UserAddUser(n, "1234", FALSE)
    \/ \E n \in NewUsers \cup PlanUsers : UserDeleteUser(n)
    \/ \E u \in PlanUsers : UserAddCustomLocation(u, W1, D1, "Z")
    \/ UserSetAdminOverride(Admin, D1)
    \/ UserClearAdminOverride
    \/ \E id \in 1..MaxIds, net \in Net : UserResponse(id, net)

Init == Start /\ cap = MaxIds

Spec == Init /\ [][Next]_vars

\* The plan path alone: setPlan, the replay triggers and the responses.
InitPlan == Start /\ cap = MaxPlanIds

NextPlan ==
    \/ OnlineEvent
    \/ OfflineEvent
    \/ SyncTrigger
    \/ \E p \in 1..MaxPasses, net \in Net : PassResponse(p, net)
    \/ \E w \in Weeks, u \in PlanUsers, l \in PlanInputs : UserSetPlan(w, u, l)
    \/ \E id \in 1..MaxPlanIds, net \in Net : UserResponse(id, net)

SpecPlan == InitPlan /\ [][NextPlan]_vars

TypeOK ==
    /\ isOnline \in BOOLEAN
    /\ nextId \in 1..(cap + 1)
    /\ Len(passes) <= MaxPasses

\* ------------------------------------------------------------ observations
InQueue(id) == \E k \in DOMAIN doc.syncQueue : doc.syncQueue[k].id = id

LocalPlan(w, u) == IF Has(getPlansForWeek(doc, w), u) THEN doc.plans[w][u] ELSE Null

RemotePlan(w, u) == IF Has(plansGetHandler(remote, w), u) THEN plansGetHandler(remote, w)[u] ELSE Null

InProgress == {p \in DOMAIN passes : passes[p].pc = "await"}

SentBy(p) == {k \in DOMAIN sent : sent[k].pass = p}

Fails(id) == Cardinality({e \in log : e.id = id /\ e.outcome \in {"throw", "notok"}})

Confirmed(id) == \E e \in log : e.id = id /\ e.outcome = "ok"

Handled(id) == \E e \in log : e.id = id

\* A pass that ran alone, online, with every request answered ok.
CleanPass(p) == passes[p].pc = "done" /\ passes[p].allOk /\ passes[p].quiet

PlanItems(q, w, u) ==
    {k \in DOMAIN q : /\ q[k].action = "plan_update"
                      /\ q[k].payload.weekStartId = w
                      /\ q[k].payload.userName = u}

LastOf(S) == CHOOSE k \in S : \A j \in S : j <= k

UserPlanCalls(w, u) ==
    {id \in DOMAIN ucalls : /\ ucalls[id].action = "plan_update"
                            /\ ucalls[id].payload.weekStartId = w
                            /\ ucalls[id].payload.userName = u}

\* ------------------------------------------------------------------ claims

\* C1: after a replay pass that ran alone and online with every remote call
\* answered ok, the sync queue is empty, and a pass started after such a pass
\* issues no remote call.
C1_IdempotentReplay ==
    /\ \A p \in DOMAIN passes : CleanPass(p) => Len(doc.syncQueue) = 0
    /\ \A p \in DOMAIN passes : passes[p].after => SentBy(p) = {}

\* C2: when no pass is in flight, the local plan of (weekId, userName) is the
\* locations of the user's most recent setPlan call for it: a replay never
\* puts an older queued payload over a newer local write.
C2_ReplayKeepsNewestLocalWrite ==
    \A w \in Weeks, u \in PlanUsers :
        (InProgress = {} /\ UserPlanCalls(w, u) # {})
            => LocalPlan(w, u) = ucalls[LastOf(UserPlanCalls(w, u))].payload.locations

\* C3: at most one replay pass is in progress at any time, so no queue item
\* is sent by two passes that are in progress together.
C3_SingleFlightReplay ==
    /\ Cardinality(InProgress) <= 1
    /\ \A p1, p2 \in InProgress :
          p1 # p2 => {sent[k].item : k \in SentBy(p1)} \cap {sent[k].item : k \in SentBy(p2)} = {}

\* The scenario of C4: a single user call, setPlan made offline on an empty
\* queue, then one 'online' event (which starts the passes 1 and 2).
C4_Scenario ==
    /\ DOMAIN ucalls = {1}
    /\ ucalls[1].action = "plan_update"
    /\ ~ucalls[1].online
    /\ Len(passes) = 2
    /\ \A p \in DOMAIN passes : passes[p].trigger = "online"

\* C4: in that scenario the remote receives exactly one plans/set call, with
\* the payload of the call, and once it is answered ok the queue is empty and
\* lastSync is set.
C4_OfflineThenOnlineEndToEnd ==
    C4_Scenario =>
        /\ Len(sent) = 1
        /\ sent[1].req = [ep |-> "plans/set",
                          body |-> [weekStart |-> ucalls[1].payload.weekStartId,
                                    name |-> ucalls[1].payload.userName,
                                    locationsArray |-> ucalls[1].payload.locations]]
        /\ (Confirmed(1) /\ InProgress = {})
              => (Len(doc.syncQueue) = 0 /\ doc.lastSync # NullObj)

\* C5: offline, setPlan(W,U,L) stores L as the local plan of (W,U), appends
\* exactly one plan_update item with payload (W,U,L) and attempts 0, issues
\* no network call and returns ok:true at once.
C5_OfflineSetPlan ==
    [][\A w \in Weeks, u \in PlanUsers, l \in PlanInputs :
          (~isOnline /\ UserSetPlan(w, u, l)) =>
              /\ Has(doc'.plans, w) /\ Has(doc'.plans[w], u) /\ doc'.plans[w][u] = l
              /\ doc'.syncQueue = Append(doc.syncQueue,
                                         [id |-> nextId, action |-> "plan_update",
                                          payload |-> [weekStartId |-> w, userName |-> u,
                                                       locations |-> l],
                                          attempts |-> 0])
              /\ sent' = sent
              /\ calls' = calls
              /\ ucalls'[nextId].outcome = "offline"
              /\ ReturnOk(ucalls'[nextId].outcome)]_vars

C5_Witness ==
    \E id \in DOMAIN ucalls :
        /\ ucalls[id].action = "plan_update"
        /\ ~ucalls[id].online
        /\ InQueue(id)
        /\ LocalPlan(ucalls[id].payload.weekStartId, ucalls[id].payload.userName)
              = ucalls[id].payload.locations

C7_BoundedRetry ==
    \A id \in 1..(nextId - 1) :
        ~Confirmed(id) =>
            /\ Fails(id) \in 1..(MaxAttempts - 1) => InQueue(id)
            /\ Fails(id) <= MaxAttempts
            /\ Fails(id) = MaxAttempts => ~InQueue(id)

\* C8: an item leaves the queue as settled only when the remote confirmed
\* success for its request; an item whose request was not delivered is still
\* queued after the pass (unless its attempts are exhausted).
C8_SettledOnlyOnConfirmedSuccess ==
    \A id \in 1..(nextId - 1) :
        ~InQueue(id) => (Confirmed(id) \/ Fails(id) >= MaxAttempts)

\* C9: a Local Store mutation appends exactly one item at the tail of the
\* queue, with the action of the mutation, the arguments of the call as
\* payload and attempts 0, and leaves the items already queued as they were.
C9_MutationAppendsOneItem ==
    [][(DOMAIN ucalls' # DOMAIN ucalls) =>
          /\ DOMAIN ucalls' = DOMAIN ucalls \cup {nextId}
          /\ doc'.syncQueue = Append(doc.syncQueue,
                                     [id |-> nextId,
                                      action |-> ucalls'[nextId].action,
                                      payload |-> ucalls'[nextId].payload,
                                      attempts |-> 0])]_vars

C9_Witness ==
    /\ Len(doc.syncQueue) >= 2
    /\ doc.syncQueue[Len(doc.syncQueue)].id \in DOMAIN ucalls
    /\ doc.syncQueue[Len(doc.syncQueue)].action = "user_delete"
    /\ doc.syncQueue[Len(doc.syncQueue)].attempts = 0

\* C10: online, a mutating action whose immediate remote call succeeds leaves
\* no queue item for that mutation; when the immediate call fails, the item
\* it enqueued remains in the queue (until a pass handles it).
C10_ImmediateDelivery ==
    \A id \in DOMAIN ucalls :
        /\ ucalls[id].outcome = "ok" => ~InQueue(id)
        /\ (ucalls[id].outcome \in {"throw", "notok"} /\ ~Handled(id)) => InQueue(id)

\* C11: an item whose request the server rejects (a non-2xx answer, such as
\* 409 from users/add for a name that exists) is removed from the queue by
\* the pass that saw the rejection, and no later pass sends that mutation
\* again.  Stated for runs with a single user-level call and no network
\* fault, where every request of a pass stems from that one mutation.
C11_RejectedItemEnds ==
    (faults = 0 /\ Cardinality(DOMAIN ucalls) = 1) =>
        \A e \in log : e.outcome = "throw" =>
            /\ ~InQueue(e.id)
            /\ \A j, k \in DOMAIN sent :
                  (sent[j].item = e.id /\ sent[j].pass = e.pass /\ sent[k].pass > e.pass)
                      => sent[k].req # sent[j].req

\* ------------------------------------------------- the Local Store alone
\* The Local Store called directly, each write of the document succeeding or
\* failing (setItem throwing, as on exceeded quota).  The document at the
\* start is one an earlier session left: plans and custom locations of two
\* users, the queue already drained.
MaxStoreOps == 2

W2 == "20250818"
StoreUsers == {"Sahil Sharma", "Vijay Kumar"}
SaveOutcomes == BOOLEAN \X BOOLEAN

\* The locations setPlan is called with: a week of seven, and an array of one.
StorePlanInputs == {LB, <<"X">>}

PlansOf(S) ==
    [w \in {e[1] : e \in S} |-> [u \in {e[2] : e \in {x \in S : x[1] = w}} |-> LA]]

CustomOf(T) == [u \in T |-> [w \in {W1} |-> [day \in {D1} |-> "Z"]]]

StoredDocs ==
    {[defaultData EXCEPT !.plans = PlansOf(S), !.customLocations = CustomOf(T)] :
        S \in SUBSET {<<W1, "Sahil Sharma">>, <<W2, "Sahil Sharma">>, <<W1, "Vijay Kumar">>},
        T \in {{}, StoreUsers}}

\* saveData returns true or false; setUser, removeUser, setPlan,
\* addCustomLocation, setAdminOverride and clearAdminOverride drop that value
\* and addToSyncQueue does too: the caller is handed no error.
MutationError(s) == FALSE

StoreCall(op, args, s, d1) ==
    /\ nextId <= cap
    /\ doc' = d1
    /\ nextId' = nextId + 1
    /\ lastOp' = [pc |-> "done", op |-> op, args |-> args, before |-> doc, s |-> s,
                  id |-> nextId, error |-> MutationError(s)]
    /\ UNCHANGED <<isOnline, passes, calls, remote, sent, log, ucalls, faults, cap, auth, handlers,
                   reads, fetch, week>>

StoreSetUser(name, userData, s) ==
    /\ s \in SaveOutcomes
    /\ StoreCall("setUser", <<name, userData>>, s, LocalStorage_setUser(doc, nextId, name, userData, s))

StoreRemoveUser(name, s) ==
    /\ s \in SaveOutcomes
    /\ StoreCall("removeUser", <<name>>, s, LocalStorage_removeUser(doc, nextId, name, s))

StoreSetPlan(weekStartId, userName, locations, s) ==
    /\ s \in SaveOutcomes
    /\ StoreCall("setPlan", <<weekStartId, userName, locations>>, s,
              LocalStorage_setPlan(doc, nextId, weekStartId, userName, locations, s))

StoreAddCustomLocation(userName, weekStartId, dayDate, location, s) ==
    /\ s \in SaveOutcomes
    /\ StoreCall("addCustomLocation", <<userName, weekStartId, dayDate, location>>, s,
              LocalStorage_addCustomLocation(doc, nextId, userName, weekStartId, dayDate,
                                             location, s))

StoreSetAdminOverride(adminName, overrideWeekStart, s) ==
    /\ s \in SaveOutcomes
    /\ StoreCall("setAdminOverride", <<adminName, overrideWeekStart>>, s,
              LocalStorage_setAdminOverride(doc, nextId, adminName, overrideWeekStart, s))

StoreClearAdminOverride(s) ==
    /\ s \in SaveOutcomes
    /\ StoreCall("clearAdminOverride", <<>>, s, LocalStorage_clearAdminOverride(doc, nextId, s))

InitStore ==
    /\ isOnline = FALSE
    /\ doc \in StoredDocs
    /\ nextId = 1
    /\ passes = <<>>
    /\ calls = {}
    /\ remote = [users |-> seedRows, plans |-> <<>>, custom |-> <<>>, overrides |-> <<>>]
    /\ sent = <<>>
    /\ log = {}
    /\ ucalls = EmptyObj
    /\ faults = 0
    /\ cap = MaxStoreOps
    /\ lastOp = Idle
    /\ reads = <<>>
    /\ fetch = Idle
    /\ handlers = <<>>
    /\ auth = NewAuthManager
    /\ week = Idle

NextStore ==
    \/ \E n \in NewUsers, s \in SaveOutcomes :
           StoreSetUser(n, [password |-> "1234", isAdmin |-> FALSE], s)
    \/ \E n \in StoreUsers, s \in SaveOutcomes : StoreRemoveUser(n, s)
    \/ \E u \in StoreUsers, l \in StorePlanInputs, s \in SaveOutcomes :
           StoreSetPlan(W1, u, l, s)
    \/ \E s \in SaveOutcomes : StoreAddCustomLocation("Vijay Kumar", W2, D1, "Q", s)
    \/ \E s \in SaveOutcomes : StoreSetAdminOverride(Admin, D1, s)
    \/ \E s \in SaveOutcomes : StoreClearAdminOverride(s)

SpecStore == InitStore /\ [][NextStore]_vars

\* The data of a document: everything but the queue.
DataOf(d) == [users |-> d.users, plans |-> d.plans, customLocations |-> d.customLocations,
              adminOverride |-> d.adminOverride, lastSync |-> d.lastSync]

\* C12: removeUser(U) removes U from users, U's entry from the plans of every
\* week and all custom locations of U, leaves users, plans and custom
\* locations of every other user as they were, and persists the three
\* removals in one write: when that write fails none of them is persisted.
C12_CascadeDelete ==
    (lastOp.pc = "done" /\ lastOp.op = "removeUser") =>
        LET U == lastOp.args[1]
            b == lastOp.before
        IN IF lastOp.s[1]
           THEN /\ ~Has(doc.users, U)
                /\ \A w \in DOMAIN doc.plans : ~Has(doc.plans[w], U)
                /\ ~Has(doc.customLocations, U)
                /\ doc.users = Delete(b.users, U)
                /\ DOMAIN doc.plans = DOMAIN b.plans
                /\ \A w \in DOMAIN b.plans : \A v \in DOMAIN b.plans[w] :
                      v # U => (Has(doc.plans[w], v) /\ doc.plans[w][v] = b.plans[w][v])
                /\ \A v \in DOMAIN b.customLocations :
                      v # U => (Has(doc.customLocations, v)
                                /\ doc.customLocations[v] = b.customLocations[v])
                /\ doc.adminOverride = b.adminOverride
           ELSE DataOf(doc) = DataOf(b)

C12_Witness ==
    /\ lastOp.pc = "done"
    /\ lastOp.op = "removeUser"
    /\ lastOp.args[1] = "Sahil Sharma"
    /\ lastOp.s[1]
    /\ Has(lastOp.before.plans, W1) /\ Has(lastOp.before.plans[W1], "Sahil Sharma")
    /\ Has(lastOp.before.plans, W2) /\ Has(lastOp.before.plans[W2], "Sahil Sharma")
    /\ Has(lastOp.before.customLocations, "Sahil Sharma")
    /\ Has(doc.plans[W1], "Vijay Kumar")
    /\ Has(doc.customLocations, "Vijay Kumar")
    /\ ~Has(doc.users, "Sahil Sharma")

\* C16: when a write of the document fails during a Local Store mutation,
\* the caller receives an error and the persisted document, data and queue
\* alike, is as it was before the call.
C16_FailedWriteRejected ==
    (lastOp.pc = "done" /\ (~lastOp.s[1] \/ ~lastOp.s[2])) =>
        (lastOp.error /\ doc = lastOp.before)

\* C30: no persisted document is observable, a stop between two steps of a
\* call included, in which the data change of a Local Store mutation is there
\* and its queue item is not: data change and item are persisted by one
\* write.  (The document after the first write of a call is the document a
\* call leaves whose second write fails.)
C30_DataAndItemInOneWrite ==
    (lastOp.pc = "done" /\ DataOf(doc) # DataOf(lastOp.before)) =>
        \E k \in DOMAIN doc.syncQueue :
            /\ doc.syncQueue[k].id = lastOp.id
            /\ doc.syncQueue[k].attempts = 0

\* --------------------------------------------------- the reads of APIClient
\* getUsers, getPlans and getAdminOverride: the call up to its await, then
\* the rest of the call when fetchWithRetry returns or throws.  Other
\* handlers (a setPlan of the user, say) run in between.
MaxReads == 2
MaxReadIds == 3

\* GET users: name and isAdmin of every row, in sheet order.
usersHandler(rem) ==
    [ok |-> TRUE,
     users |-> [k \in DOMAIN rem.users |->
                   [name |-> rem.users[k].name, isAdmin |-> rem.users[k].is_admin]]]

\* GET override: the last row of the sheet, or null.
overrideGetHandler(rem) ==
    [ok |-> TRUE,
     override |-> IF Len(rem.overrides) > 0
                  THEN [adminName |-> rem.overrides[Len(rem.overrides)].admin_name,
                        overrideWeekStart |-> rem.overrides[Len(rem.overrides)].override_week_start]
                  ELSE NullObj]

\* The keys of the plans object of a plans/get response, in insertion order.
RECURSIVE PlanNames(_, _, _)
PlanNames(rows, weekStart, k) ==
    IF k = 0 THEN <<>>
    ELSE LET prev == PlanNames(rows, weekStart, k - 1)
         IN IF rows[k].week_start = weekStart /\ \A j \in DOMAIN prev : prev[j] # rows[k].name
            THEN Append(prev, rows[k].name)
            ELSE prev

\* The fallback list of getUsers: name and isAdmin of every local user.
LocalUsersList(d) == {[name |-> n, isAdmin |-> d.users[n].isAdmin] : n \in DOMAIN d.users}

\* A slip: the record is rebuilt from the response alone, the password is lost.
MergedUser_bare(local, user) == [password |-> Null, isAdmin |-> user.isAdmin]

\* { ...currentUsers[user.name], isAdmin: user.isAdmin }
MergedUser(local, user) == [local EXCEPT !.isAdmin = user.isAdmin]

\* getUsers, lines 75-85: every user of the response that is known locally is
\* written back through setUser.
RECURSIVE MergeUsers(_, _, _, _, _)
MergeUsers(d, id, currentUsers, users, k) ==
    IF k > Len(users) THEN [doc |-> d, nextId |-> id]
    ELSE IF Has(currentUsers, users[k].name)
         THEN MergeUsers(LocalStorage_setUser(d, id, users[k].name,
                                              MergedUser(currentUsers[users[k].name], users[k]),
                                              AllSaved),
                         id + 1, currentUsers, users, k + 1)
         ELSE MergeUsers(d, id, currentUsers, users, k + 1)

\* getPlans, lines 169-176: every entry of the response goes through setPlan.
RECURSIVE MergePlans(_, _, _, _, _, _)
MergePlans(d, id, weekStartId, plans, names, k) ==
    IF k > Len(names) THEN [doc |-> d, nextId |-> id]
    ELSE MergePlans(LocalStorage_setPlan(d, id, weekStartId, names[k], plans[names[k]], AllSaved),
                    id + 1, weekStartId, plans, names, k + 1)

\* getAdminOverride, lines 335-345: a null override of the response leaves
\* the Local Store alone.
MergeOverride(d, id, response) ==
    IF response.override = NullObj THEN [doc |-> d, nextId |-> id]
    ELSE IF ~Falsy(response.override.adminName) /\ ~Falsy(response.override.overrideWeekStart)
         THEN [doc |-> LocalStorage_setAdminOverride(d, id, response.override.adminName,
                                                     response.override.overrideWeekStart, AllSaved),
               nextId |-> id + 1]
         ELSE [doc |-> LocalStorage_clearAdminOverride(d, id, AllSaved), nextId |-> id + 1]

\* What the Local Store holds for a read of that kind.
LocalValue(kind, arg, d) ==
    CASE kind = "getUsers"         -> LocalUsersList(d)
      [] kind = "getPlans"         -> getPlansForWeek(d, arg)
      [] kind = "getAdminOverride" -> d.adminOverride

\* A read call up to its await; offline it returns at once.  local is what
\* the call read before the await (getPlans and getAdminOverride do, line 157
\* and line 326; getUsers reads nothing before it).
ReadCall(kind, arg) ==
    /\ Len(reads) < MaxReads
    /\ reads' = Append(reads,
                       [kind |-> kind, arg |-> arg,
                        pc |-> IF isOnline THEN "await" ELSE "done",
                        local |-> LocalValue(kind, arg, doc),
                        net |-> IF isOnline THEN "pending" ELSE "offline",
                        ret |-> IF isOnline THEN [ok |-> FALSE, value |-> Null]
                                ELSE [ok |-> TRUE, value |-> LocalValue(kind, arg, doc)],
                        response |-> Idle,
                        before |-> doc, after |-> doc])
    /\ UNCHANGED <<isOnline, doc, nextId, passes, calls, remote, sent, log, ucalls, faults, cap, auth, handlers,
                   lastOp, fetch, week>>

GetUsersCall == ReadCall("getUsers", Null) /\ reads'[Len(reads')].kind = "getUsers"

GetPlansCall(weekStartId) ==
    ReadCall("getPlans", weekStartId) /\ reads'[Len(reads')].kind = "getPlans"

GetAdminOverrideCall ==
    ReadCall("getAdminOverride", Null) /\ reads'[Len(reads')].kind = "getAdminOverride"

\* The rest of a read: m is the Local Store after the merge of the response
\* (when the fetch returned), fallback the value of the catch block.
ReadReturn(r, net, response, m, fallback) ==
    /\ m.nextId <= cap + 1
    /\ doc' = (IF net = "deliver" THEN m.doc ELSE doc)
    /\ nextId' = (IF net = "deliver" THEN m.nextId ELSE nextId)
    /\ reads' = [reads EXCEPT ![r] =
                    [@ EXCEPT !.pc = "done", !.net = net,
                              !.response = IF net = "deliver" THEN response ELSE Idle,
                              !.ret = CASE net = "deliver" -> [ok |-> TRUE, value |-> response]
                                        [] net = "fail"    -> [ok |-> TRUE, value |-> fallback]
                                        [] net = "notok"   -> [ok |-> FALSE, value |-> Null],
                              !.before = doc,
                              !.after = IF net = "deliver" THEN m.doc ELSE doc]]
    /\ Deliver(net)
    /\ UNCHANGED <<isOnline, passes, calls, remote, sent, log, ucalls, cap, auth, handlers, lastOp, fetch, week>>

GetUsersResponse(r, net) ==
    /\ r \in DOMAIN reads
    /\ reads[r].kind = "getUsers"
    /\ reads[r].pc = "await"
    /\ LET response == usersHandler(remote)
       IN ReadReturn(r, net, response,
                     MergeUsers(doc, nextId, doc.users, response.users, 1),
                     LocalUsersList(doc))

GetPlansResponse(r, net) ==
    /\ r \in DOMAIN reads
    /\ reads[r].kind = "getPlans"
    /\ reads[r].pc = "await"
    /\ LET response == [ok |-> TRUE, plans |-> plansGetHandler(remote, reads[r].arg)]
       IN ReadReturn(r, net, response,
                     MergePlans(doc, nextId, reads[r].arg, response.plans,
                                PlanNames(remote.plans, reads[r].arg, Len(remote.plans)), 1),
                     reads[r].local)

GetAdminOverrideResponse(r, net) ==
    /\ r \in DOMAIN reads
    /\ reads[r].kind = "getAdminOverride"
    /\ reads[r].pc = "await"
    /\ LET response == overrideGetHandler(remote)
       IN ReadReturn(r, net, response, MergeOverride(doc, nextId, response), reads[r].local)

\* The remote store as other clients and the sheet's owner may have left it:
\* two of the seed users remain, and in the second state the first of them
\* was made an admin, a user unknown to this client was added, and a plan
\* and an override were stored.
RemoteStates ==
    {[users |-> <<seedRows[1], seedRows[5]>>,
      plans |-> <<>>, custom |-> <<>>, overrides |-> <<>>],
     [users |-> <<[seedRows[1] EXCEPT !.is_admin = TRUE], seedRows[5],
                  [name |-> "Asha Rao", password |-> "1234", is_admin |-> FALSE]>>,
      plans |-> <<[week_start |-> W1, name |-> "Vijay Kumar", days |-> LB]>>,
      custom |-> <<>>,
      overrides |-> <<[admin_name |-> Admin, override_week_start |-> "2025-08-18"]>>]}

InitRead ==
    /\ isOnline \in BOOLEAN
    /\ doc = defaultData
    /\ nextId = 1
    /\ passes = <<>>
    /\ calls = {}
    /\ remote \in RemoteStates
    /\ sent = <<>>
    /\ log = {}
    /\ ucalls = EmptyObj
    /\ faults = 0
    /\ cap = MaxReadIds
    /\ lastOp = Idle
    /\ reads = <<>>
    /\ fetch = Idle
    /\ handlers = <<>>
    /\ auth = NewAuthManager
    /\ week = Idle

NextRead ==
    \/ GetUsersCall
    \/ \E w \in Weeks : GetPlansCall(w)
    \/ GetAdminOverrideCall
    \/ \E r \in 1..MaxReads, net \in Net : GetUsersResponse(r, net)
    \/ \E r \in 1..MaxReads, net \in Net : GetPlansResponse(r, net)
    \/ \E r \in 1..MaxReads, net \in Net : GetAdminOverrideResponse(r, net)
    \/ \E u \in PlanUsers, l \in PlanInputs : UserSetPlan(W1, u, l)
    \/ UserSetAdminOverride(Admin, D1)
    \/ \E id \in 1..MaxReadIds, net \in Net : UserResponse(id, net)

SpecRead == InitRead /\ [][NextRead]_vars

\* C13: when a getUsers read succeeds, every user present both locally and
\* in the response has the server's isAdmin afterwards and the password it
\* had before.
C13_ServerWinsMerge ==
    \A r \in DOMAIN reads :
        (reads[r].kind = "getUsers" /\ reads[r].pc = "done" /\ reads[r].net = "deliver") =>
            \A k \in DOMAIN reads[r].response.users :
                LET user == reads[r].response.users[k]
                IN Has(reads[r].before.users, user.name) =>
                      /\ Has(reads[r].after.users, user.name)
                      /\ reads[r].after.users[user.name].isAdmin = user.isAdmin
                      /\ reads[r].after.users[user.name].password
                            = reads[r].before.users[user.name].password

C13_Witness ==
    \E r \in DOMAIN reads :
        /\ reads[r].kind = "getUsers" /\ reads[r].pc = "done" /\ reads[r].net = "deliver"
        /\ ~reads[r].before.users["Sahil Sharma"].isAdmin
        /\ reads[r].after.users["Sahil Sharma"] = [password |-> "8371", isAdmin |-> TRUE]
        /\ ~Has(reads[r].after.users, "Asha Rao")

\* C15: when the remote read inside getUsers, getPlans or getAdminOverride
\* fails, the call returns ok:true with what the Local Store holds when it
\* returns, and the call leaves the cache document as it was.
C15_ReadFallback ==
    \A r \in DOMAIN reads :
        (reads[r].pc = "done" /\ reads[r].net = "fail") =>
            /\ reads[r].ret.ok
            /\ reads[r].ret.value = LocalValue(reads[r].kind, reads[r].arg, reads[r].after)
            /\ reads[r].after = reads[r].before

\* C37: after a successful getAdminOverride the local adminOverride agrees
\* with the server's: adminName and overrideWeekStart of the override the
\* server reports, and null when it reports none.
C37_OverrideAgreesAfterRead ==
    \A r \in DOMAIN reads :
        (reads[r].kind = "getAdminOverride" /\ reads[r].pc = "done" /\ reads[r].net = "deliver") =>
            reads[r].after.adminOverride = reads[r].response.override

\* The data of document d shows the local write of a mutating action.
DataApplied(d, action, payload) ==
    CASE action = "plan_update" ->
            /\ Has(d.plans, payload.weekStartId)
            /\ Has(d.plans[payload.weekStartId], payload.userName)
            /\ d.plans[payload.weekStartId][payload.userName] = payload.locations
      [] action = "user_update" ->
            Has(d.users, payload.name) /\ d.users[payload.name] = payload.userData
      [] action = "user_delete" -> ~Has(d.users, payload.name)
      [] action = "custom_location_add" ->
            /\ Has(d.customLocations, payload.userName)
            /\ Has(d.customLocations[payload.userName], payload.weekStartId)
            /\ Has(d.customLocations[payload.userName][payload.weekStartId], payload.dayDate)
            /\ d.customLocations[payload.userName][payload.weekStartId][payload.dayDate]
                  = payload.location
      [] action = "admin_override" ->
            d.adminOverride = [adminName |-> payload.adminName,
                               overrideWeekStart |-> payload.overrideWeekStart]
      [] action = "admin_override_clear" -> d.adminOverride = NullObj

\* C14: every mutating client action has applied its local write by the time
\* its request is issued (or by its return, when offline), and what it
\* returns is ok:true whenever the client is offline and whenever the remote
\* call fails (network error, retries exhausted or a non-2xx answer).
C14_LocalFirstNeverFails ==
    [][/\ \A id \in (DOMAIN ucalls') \ (DOMAIN ucalls) :
             /\ DataApplied(doc', ucalls'[id].action, ucalls'[id].payload)
             /\ \E k \in DOMAIN doc'.syncQueue : doc'.syncQueue[k].id = id
             /\ \A c \in calls' \ calls : c.id = id
       /\ \A id \in DOMAIN ucalls' :
             ucalls'[id].outcome \in {"offline", "throw"} => ReturnOk(ucalls'[id].outcome)]_vars

C14_Witness ==
    \E id1, id2 \in DOMAIN ucalls :
        /\ ucalls[id1].online /\ ucalls[id1].outcome = "throw"
        /\ ucalls[id1].action = "user_delete"
        /\ ~ucalls[id2].online /\ ucalls[id2].outcome = "offline"

\* ------------------------------------------------------- fetchWithRetry
\* One call of fetchWithRetry(url, options, maxRetries), attempt by attempt.
DefaultMaxRetries == 3
MaxRetriesArg == 2

\* What one fetch(url, options) comes to: a network-level rejection, or a
\* response with a status and a body that parses as JSON or does not.
FetchResponses ==
    {[kind |-> "network", status |-> 0, body |-> "none", message |-> ""],
     [kind |-> "http", status |-> 200, body |-> "json", message |-> ""],
     [kind |-> "http", status |-> 200, body |-> "text", message |-> ""],
     [kind |-> "http", status |-> 409, body |-> "json", message |-> "User already exists"],
     [kind |-> "http", status |-> 500, body |-> "json", message |-> ""],
     [kind |-> "http", status |-> 502, body |-> "text", message |-> ""]}

\* response.ok
ResponseOk(resp) == resp.kind = "http" /\ resp.status \in 200..299

\* The attempt returns: a 2xx answer whose body parses.
Succeeds(resp) == ResponseOk(resp) /\ resp.body = "json"

HttpError(status) ==
    CASE status = 409 -> "HTTP 409"
      [] status = 500 -> "HTTP 500"
      [] status = 502 -> "HTTP 502"
      [] OTHER -> "HTTP"

\* The error the try block ends with when the attempt does not return.
ErrorOf(resp) ==
    IF resp.kind = "network" THEN "Failed to fetch"
    ELSE IF ResponseOk(resp) THEN "SyntaxError"
    ELSE IF resp.body = "json" /\ resp.message # "" THEN resp.message
    ELSE HttpError(resp.status)

\* A slip: the comparison is off by one, the last failure is not rethrown.
IsLastAttempt_late(attempt, maxRetries) == attempt = maxRetries

\* attempt === maxRetries - 1
IsLastAttempt(attempt, maxRetries) == attempt = maxRetries - 1

RECURSIVE Pow2(_)
Pow2(n) == IF n = 0 THEN 1 ELSE 2 * Pow2(n - 1)

\* Math.pow(2, attempt) * 1000
BackoffDelay(attempt) == Pow2(attempt) * 1000

\* One turn of the loop: fetch, then return, rethrow or start the backoff.
FetchAttempt(resp) ==
    /\ fetch.pc = "fetch"
    /\ fetch.attempt < fetch.maxRetries
    /\ fetch' = [fetch EXCEPT
                    !.history = Append(@, resp),
                    !.pc = IF Succeeds(resp) THEN "returned"
                           ELSE IF IsLastAttempt(fetch.attempt, fetch.maxRetries) THEN "thrown"
                           ELSE "backoff",
                    !.result = IF Succeeds(resp) THEN "body" ELSE @,
                    !.error = IF Succeeds(resp) THEN @ ELSE ErrorOf(resp),
                    !.delays = IF Succeeds(resp) \/ IsLastAttempt(fetch.attempt, fetch.maxRetries)
                               THEN @ ELSE Append(@, BackoffDelay(fetch.attempt))]
    /\ UNCHANGED <<isOnline, doc, nextId, passes, calls, remote, sent, log, ucalls, faults, cap, auth, handlers,
                   lastOp, reads, week>>

\* The backoff timer fires: attempt++ and the loop test; when the test fails
\* the function falls off its end and returns undefined.
FetchBackoff ==
    /\ fetch.pc = "backoff"
    /\ fetch' = [fetch EXCEPT
                    !.attempt = @ + 1,
                    !.pc = IF fetch.attempt + 1 < fetch.maxRetries THEN "fetch" ELSE "returned",
                    !.result = IF fetch.attempt + 1 < fetch.maxRetries THEN @ ELSE "undefined"]
    /\ UNCHANGED <<isOnline, doc, nextId, passes, calls, remote, sent, log, ucalls, faults, cap, auth, handlers,
                   lastOp, reads, week>>

InitFetch ==
    /\ isOnline = TRUE
    /\ doc = defaultData
    /\ nextId = 1
    /\ passes = <<>>
    /\ calls = {}
    /\ remote = [users |-> seedRows, plans |-> <<>>, custom |-> <<>>, overrides |-> <<>>]
    /\ sent = <<>>
    /\ log = {}
    /\ ucalls = EmptyObj
    /\ faults = 0
    /\ cap = MaxIds
    /\ lastOp = Idle
    /\ reads = <<>>
    /\ \E n \in {DefaultMaxRetries} \cup (1..MaxRetriesArg) :
          fetch = [pc |-> "fetch", maxRetries |-> n, attempt |-> 0, history |-> <<>>,
                   result |-> "none", error |-> "none", delays |-> <<>>]
    /\ week = Idle
    /\ handlers = <<>>
    /\ auth = NewAuthManager

NextFetch ==
    \/ \E resp \in FetchResponses : FetchAttempt(resp)
    \/ FetchBackoff

SpecFetch == InitFetch /\ [][NextFetch]_vars

\* C17: fetchWithRetry makes at most maxRetries attempts: it returns the
\* first successful response with no further attempt, goes on after each
\* failure before the last, and after the maxRetries-th failure it fails
\* with the error of that last attempt.
C17_BoundedAttempts ==
    fetch.pc # "idle" =>
        LET n == Len(fetch.history)
        IN /\ n <= fetch.maxRetries
           /\ \A k \in 1..(n - 1) : ~Succeeds(fetch.history[k])
           /\ fetch.pc = "returned" => (n >= 1 /\ Succeeds(fetch.history[n]) /\ fetch.result = "body")
           /\ fetch.pc = "thrown" => /\ n = fetch.maxRetries
                                     /\ ~Succeeds(fetch.history[n])
                                     /\ fetch.error = ErrorOf(fetch.history[n])
           /\ fetch.pc \in {"fetch", "backoff"} => n < fetch.maxRetries
           /\ (n >= 1 /\ ~Succeeds(fetch.history[n]) /\ n < fetch.maxRetries)
                 => fetch.pc \in {"fetch", "backoff"}

C17_Witness ==
    /\ fetch.pc = "thrown"
    /\ fetch.maxRetries = DefaultMaxRetries
    /\ Len(fetch.history) = 3
    /\ fetch.history[1].kind = "network"
    /\ fetch.history[2].status = 500
    /\ fetch.history[3].status = 409
    /\ fetch.error = "User already exists"
    /\ fetch.delays = <<1000, 2000>>

\* C18: a call that receives a non-2xx response whose body parses as JSON
\* fails at once with the server's message: that attempt is the only one.
C18_RejectedNoRetry ==
    fetch.pc # "idle" =>
        \A k \in DOMAIN fetch.history :
            (~ResponseOk(fetch.history[k]) /\ fetch.history[k].kind = "http"
                /\ fetch.history[k].body = "json") =>
                /\ fetch.pc = "thrown"
                /\ Len(fetch.history) = 1
                /\ fetch.error = ErrorOf(fetch.history[k])

\* C31: a 2xx response whose body is not valid JSON makes the call fail
\* without a retry; an attempt is followed by another only after a
\* network-level failure or a non-2xx status.
C31_MalformedJsonNotRetried ==
    fetch.pc # "idle" =>
        \A k \in DOMAIN fetch.history :
            /\ (ResponseOk(fetch.history[k]) /\ fetch.history[k].body # "json") =>
                  (fetch.pc = "thrown" /\ k = Len(fetch.history))
            /\ (k < Len(fetch.history) \/ fetch.pc = "backoff") =>
                  (fetch.history[k].kind = "network" \/ ~ResponseOk(fetch.history[k]))

\* The requests awaiting their answer: of user-level calls and of passes.
Pending == {c.req : c \in calls} \cup {passes[p].req : p \in InProgress}

\* C19: for every queue action, delivering the same request to the remote
\* store twice leaves it in the state one delivery leaves it in (plans/set,
\* users/add, users/delete, custom/add, override set and clear).
C19_RemoteIdempotent ==
    \A req \in Pending :
        Handler(Handler(remote, req).remote, req).remote = Handler(remote, req).remote

\* C24: in every reachable state every stored plan entry
\* plans[weekId][userName] is a sequence of exactly 7 entries, whatever
\* arguments setPlan is called with and whatever plans a read merges in.
C24_PlansHaveSevenEntries ==
    \A w \in DOMAIN doc.plans : \A u \in DOMAIN doc.plans[w] :
        /\ Len(doc.plans[w][u]) = 7
        /\ \A i \in 1..7 : doc.plans[w][u][i] \in STRING

\* The place of an item in a queue.
PositionOf(q, id) == CHOOSE k \in DOMAIN q : q[k].id = id

\* C26: when the delivery of an item fails during a pass (the call of its
\* action reports not-ok), the persisted attempts of the item go up by exactly
\* 1 and the item stays in the queue, at its position, as long as the new
\* count is below 5.
C26_FailedDeliveryCounted ==
    [][\A e \in log' \ log :
          e.outcome = "notok" =>
              /\ InQueue(e.id)
              /\ LET k == PositionOf(doc.syncQueue, e.id)
                     n == doc.syncQueue[k].attempts + 1
                 IN n < MaxAttempts =>
                       /\ k \in DOMAIN doc'.syncQueue
                       /\ doc'.syncQueue[k].id = e.id
                       /\ doc'.syncQueue[k].attempts = n]_vars

\* The data of a document a replay has no business with.
FrameOf(d) == [users |-> d.users, plans |-> d.plans, customLocations |-> d.customLocations,
               adminOverride |-> d.adminOverride]

\* C34: a replay pass itself writes only syncQueue and lastSync of the cache
\* document: users, plans, customLocations and adminOverride are after every
\* step of a pass (its start, and each response it handles) what they were
\* before it, whatever items the queue holds.
C34_ReplayWritesQueueOnly ==
    [][(sent' # sent \/ log' # log \/ Len(passes') > Len(passes))
          => FrameOf(doc') = FrameOf(doc)]_vars

\* C35: the read operations getUsers, getPlans and getAdminOverride never
\* change the sync queue: merging a server response into the Local Store
\* enqueues no item.
C35_ReadsLeaveQueue ==
    [][reads' # reads => doc'.syncQueue = doc.syncQueue]_vars

\* ------------------------------------------- replay of a queue left behind
\* The replay of a queue that an earlier session left in the document: a
\* user added and then removed while offline, or a plan written behind an
\* item whose action this version of processSyncQueue does not know (written
\* by another version of the client, or brought in by importData), or none.
MaxQueueIds == 6

QueuedAddDelete ==
    LocalStorage_removeUser(
        LocalStorage_setUser(defaultData, 1, "Asha Rao",
                             [password |-> "1234", isAdmin |-> FALSE], AllSaved),
        2, "Asha Rao", AllSaved)

LegacyItem ==
    [id |-> 1, action |-> "plan_delete",
     payload |-> [weekStartId |-> W1, userName |-> "Sahil Sharma"], attempts |-> 0]

QueuedLegacy ==
    LocalStorage_setPlan([defaultData EXCEPT !.syncQueue = <<LegacyItem>>],
                         2, W1, "Sahil Sharma", LA, AllSaved)

QueueDocs == {defaultData, QueuedAddDelete, QueuedLegacy}

\* A call of processSyncQueue that returns at its first or second line; the
\* call is noted with the document it found.
SyncCallReturns ==
    /\ SetClient(processSyncQueue(ClientState, isOnline, "timer"))
    /\ lastOp' = [pc |-> "done", op |-> "processSyncQueue", online |-> isOnline,
                  before |-> doc, sent |-> Len(sent)]
    /\ UNCHANGED <<isOnline, calls, remote, ucalls, faults, cap, auth, handlers, reads, fetch, week>>

\* processSyncQueue() called while the client is offline.
SyncTriggerOffline ==
    /\ ~isOnline
    /\ SyncCallReturns

\* processSyncQueue() called online on an empty queue.
SyncTriggerEmpty ==
    /\ isOnline
    /\ Len(getSyncQueue(doc)) = 0
    /\ SyncCallReturns

InitQueue ==
    /\ isOnline \in BOOLEAN
    /\ doc \in QueueDocs
    /\ nextId = Len(doc.syncQueue) + 1
    /\ passes = <<>>
    /\ calls = {}
    /\ remote = [users |-> seedRows, plans |-> <<>>, custom |-> <<>>, overrides |-> <<>>]
    /\ sent = <<>>
    /\ log = {}
    /\ ucalls = EmptyObj
    /\ faults = 0
    /\ cap = MaxQueueIds
    /\ lastOp = Idle
    /\ reads = <<>>
    /\ fetch = Idle
    /\ handlers = <<>>
    /\ auth = NewAuthManager
    /\ week = Idle

NextQueue ==
    \/ OnlineEvent
    \/ OfflineEvent
    \/ SyncTrigger
    \/ SyncTriggerOffline
    \/ SyncTriggerEmpty
    \/ \E p \in 1..MaxPasses, net \in Net : PassResponse(p, net)

SpecQueue == InitQueue /\ [][NextQueue]_vars

\* C25: within one replay pass the remote calls are issued in queue insertion
\* order, and the call for an item is not issued until the call for every
\* earlier item of the pass has finished; so a user_delete for U is never
\* sent before an earlier-queued user_update for U.
C25_InOrderOneAtATime ==
    \A k \in DOMAIN sent :
        LET p == sent[k].pass
            q == passes[p].q
            j == PositionOf(q, sent[k].item)
        IN /\ \A i \in 1..(Len(q) - 1) : q[i].id < q[i + 1].id
           /\ \A k2 \in SentBy(p) : k2 < k => PositionOf(q, sent[k2].item) < j
           /\ \A i \in 1..(j - 1) : \E e \in log : e.id = q[i].id /\ e.pass = p
           /\ sent[k].req.ep = "users/delete" =>
                 \A i \in DOMAIN q :
                     (q[i].action = "user_update" /\ q[i].payload.name = sent[k].req.body.name
                        /\ q[i].id < sent[k].item)
                     => \E k2 \in SentBy(p) : k2 < k /\ sent[k2].item = q[i].id

\* One pass has sent users/add for a name and, after it, users/delete for
\* the same name.
C25_Witness ==
    \E k1, k2 \in DOMAIN sent :
        /\ k1 < k2
        /\ sent[k1].pass = sent[k2].pass
        /\ sent[k1].req.ep = "users/add"
        /\ sent[k2].req.ep = "users/delete"
        /\ sent[k1].req.body.name = sent[k2].req.body.name
        /\ sent[k1].item < sent[k2].item

\* C27: every replay pass that runs while online sets lastSync when it
\* completes, for every queue content at the start of the pass (the empty
\* queue too) and whatever the outcome of each item.
C27_LastSyncAfterEveryPass ==
    /\ \A p \in DOMAIN passes : passes[p].pc = "done" => doc.lastSync # NullObj
    /\ (lastOp # Idle /\ lastOp.op = "processSyncQueue" /\ lastOp.online)
          => doc.lastSync # NullObj

\* C28: a replay trigger that fires while the client is offline issues no
\* remote call and leaves the whole cache document (queue items, their
\* attempts, data, lastSync) unchanged.
C28_OfflineTriggerNoOp ==
    [][SyncTriggerOffline =>
          /\ doc' = doc
          /\ sent' = sent
          /\ passes' = passes
          /\ remote' = remote
          /\ calls' = calls]_vars

\* The trigger fired offline on a queue of two items or more, one of them
\* with a failed attempt counted, and document and requests are as before.
C28_Witness ==
    /\ lastOp # Idle
    /\ lastOp.op = "processSyncQueue"
    /\ ~lastOp.online
    /\ Len(lastOp.before.syncQueue) >= 2
    /\ \E k \in DOMAIN lastOp.before.syncQueue : lastOp.before.syncQueue[k].attempts > 0
    /\ doc = lastOp.before
    /\ Len(sent) = lastOp.sent

\* The items of unknown action a pass has reached: (pass, place in its
\* snapshot).
UnknownReached ==
    {<<p, i>> \in (DOMAIN passes) \X (1..MaxQueueIds) :
        /\ i \in DOMAIN passes[p].q
        /\ passes[p].q[i].action \notin KnownActions
        /\ \E e \in log : e.id = passes[p].q[i].id /\ e.pass = p}

\* C29: a queue item whose action is not one of the six known actions is
\* removed from the queue by the pass that reaches it, no remote call is made
\* for it, and the pass goes on to the items after it.
C29_UnknownActionDropped ==
    \A x \in UnknownReached :
        LET p == x[1]
            i == x[2]
            item == passes[p].q[i]
        IN /\ ~InQueue(item.id)
           /\ \A k \in DOMAIN sent : sent[k].item # item.id
           /\ passes[p].i > i
           /\ i < Len(passes[p].q) =>
                 \/ \E k \in SentBy(p) : sent[k].item = passes[p].q[i + 1].id
                 \/ \E e \in log : e.id = passes[p].q[i + 1].id /\ e.pass = p

\* A pass reached the item of unknown action at the head of its snapshot,
\* dropped it and has sent the plan behind it.
C29_Witness ==
    \E p \in DOMAIN passes :
        /\ <<p, 1>> \in UnknownReached
        /\ passes[p].q[1] = LegacyItem
        /\ ~InQueue(1)
        /\ \E k \in SentBy(p) : sent[k].item = 2 /\ sent[k].req.ep = "plans/set"

\* The ids of the items of a queue.
IdsOf(q) == {q[k].id : k \in DOMAIN q}

\* What holds of every pass in a state: its requests and outcomes are for
\* items of its snapshot, one each at most, and a pass that is done has an
\* outcome for every item of the snapshot.
AttemptsSnapshotOnce ==
    \A p \in DOMAIN passes :
        LET q == passes[p].q
        IN /\ \A k \in SentBy(p) : sent[k].item \in IdsOf(q)
           /\ \A k1, k2 \in SentBy(p) : sent[k1].item = sent[k2].item => k1 = k2
           /\ \A e \in log : e.pass = p => e.id \in IdsOf(q)
           /\ \A e1, e2 \in log : (e1.pass = p /\ e2.pass = p /\ e1.id = e2.id) => e1 = e2
           /\ Cardinality(SentBy(p)) <= Len(q)
           /\ passes[p].pc = "done" =>
                 \A i \in DOMAIN q : \E e \in log : e.pass = p /\ e.id = q[i].id

\* C36: a replay pass attempts exactly the items that were in the queue when
\* it started, each at most once; items appended to the queue while the pass
\* runs are left for a later pass, so a pass ends after finitely many remote
\* calls.
C36_PassAttemptsSnapshot ==
    [][/\ AttemptsSnapshotOnce'
       /\ \A p \in DOMAIN passes : p \in DOMAIN passes' /\ passes'[p].q = passes[p].q
       /\ Len(passes') > Len(passes) => passes'[Len(passes) + 1].q = doc.syncQueue]_vars

\* A pass over a snapshot of two items is done, with a request sent for each,
\* and the queue holds items that were appended while it ran.
C36_Witness ==
    \E p \in DOMAIN passes :
        /\ passes[p].pc = "done"
        /\ Len(passes[p].q) = 2
        /\ Cardinality(SentBy(p)) = 2
        /\ \E k \in DOMAIN doc.syncQueue : doc.syncQueue[k].id \notin IdsOf(passes[p].q)

\* ------------------------------------- replay with the scheduling it has
\* The replay of SpecQueue with what the client can count on: the periodic
\* timer of setupPeriodicSync keeps firing.  A response is an event of the
\* network; fetch is called without a signal or a timer that would end the
\* wait, so no step of the client stands in for a response that does not
\* come.
SpecQueueFair == InitQueue /\ [][NextQueue]_vars /\ WF_vars(SyncTrigger)

\* C32: every replay pass eventually completes, even when the remote never
\* answers a request: each call is ended by its request timeout, so no single
\* item blocks a pass forever.
C32_PassCompletes ==
    \A p \in 1..MaxPasses :
        (p \in DOMAIN passes /\ passes[p].pc = "await")
            ~> (p \in DOMAIN passes /\ passes[p].pc = "done")

\* -------------------------------------------------- the admin override alone
\* setAdminOverride and clearAdminOverride with two override dates, the
\* replay triggers and the responses.
MaxOverrideIds == 4

D2 == "2025-08-18"
OverrideInputs == {D1, D2}
OverrideActions == {"admin_override", "admin_override_clear"}

InitOverride == Start /\ cap = MaxOverrideIds

NextOverride ==
    \/ OnlineEvent
    \/ OfflineEvent
    \/ SyncTrigger
    \/ \E p \in 1..MaxPasses, net \in Net : PassResponse(p, net)
    \/ \E d \in OverrideInputs : UserSetAdminOverride(Admin, d)
    \/ UserClearAdminOverride
    \/ \E id \in 1..MaxOverrideIds, net \in Net : UserResponse(id, net)

SpecOverride == InitOverride /\ [][NextOverride]_vars

\* The places in a queue of the override items enqueued from id on: each is
\* one call of LocalStorage.setAdminOverride or clearAdminOverride.
OverrideCallsFrom(q, id) ==
    {k \in DOMAIN q : q[k].id >= id /\ q[k].action \in OverrideActions}

\* The clear requests the remote confirms in a step: of a user-level call and
\* of a pass.
ClearConfirmed(id) ==
    /\ id \in DOMAIN ucalls
    /\ ucalls[id].action = "admin_override_clear"
    /\ ucalls[id].outcome = "pending"
    /\ ucalls'[id].outcome = "ok"

ClearConfirmedInPass ==
    \E e \in log' \ log :
        /\ e.outcome = "ok"
        /\ \E i \in DOMAIN passes[e.pass].q :
              /\ passes[e.pass].q[i].id = e.id
              /\ passes[e.pass].q[i].action = "admin_override_clear"

\* C33: after any sequence of setAdminOverride and clearAdminOverride calls
\* the local adminOverride is null when the last call was a clear and
\* otherwise holds adminName and overrideWeekStart of the last set; and after
\* any sequence of override POSTs handled one after the other the override
\* sheet holds at most one row, and none after a clear.
C33_OneOverride ==
    [][/\ LET calls1 == OverrideCallsFrom(doc'.syncQueue, nextId)
          IN IF calls1 = {}
             THEN doc'.adminOverride = doc.adminOverride
             ELSE LET last == doc'.syncQueue[LastOf(calls1)]
                  IN IF last.action = "admin_override_clear"
                     THEN doc'.adminOverride = NullObj
                     ELSE doc'.adminOverride = [adminName |-> last.payload.adminName,
                                                overrideWeekStart |-> last.payload.overrideWeekStart]
       /\ Len(remote'.overrides) <= 1
       /\ ((\E id \in 1..MaxOverrideIds : ClearConfirmed(id)) \/ ClearConfirmedInPass)
             => remote'.overrides = <<>>]_vars

\* Set to one date, set to the other and cleared, each call confirmed by the
\* remote: the local override is null and the sheet is empty.
C33_Witness ==
    /\ DOMAIN ucalls = {1, 2, 3}
    /\ ucalls[1].action = "admin_override" /\ ucalls[1].outcome = "ok"
    /\ ucalls[2].action = "admin_override" /\ ucalls[2].outcome = "ok"
    /\ ucalls[1].payload.overrideWeekStart # ucalls[2].payload.overrideWeekStart
    /\ ucalls[3].action = "admin_override_clear" /\ ucalls[3].outcome = "ok"
    /\ doc.adminOverride = NullObj
    /\ remote.overrides = <<>>

\* ------------------------------------- creation and import of the document
\* The persisted document as LocalStorage finds it when the page loads, as
\* importData replaces it and as the getters read it.  A document here may
\* lack top-level keys: it is a record over the keys it has.  The writes of
\* this part succeed; writes that fail are looked at with the Local Store
\* alone.
DocKeys == DOMAIN defaultData

Restrict(d, K) == [k \in K |-> d[k]]

\* A backup of an earlier session: two of the seed users, one of them made
\* admin, and one plan.
BackupDoc ==
    [defaultData EXCEPT
        !.users = [n \in {"Sahil Sharma", "Sudhir Kumar"} |->
                      [password |-> "1234", isAdmin |-> TRUE]],
        !.plans = PlansOf({<<W1, "Sahil Sharma">>})]

\* The documents importData is handed and a page load may find: the backup
\* with any of its top-level keys left out; none at all is the absent or
\* empty document.
PartialDocs == {Restrict(BackupDoc, K) : K \in SUBSET DocKeys}

\* initializeStorage(): existing = getData(); no document or one without keys
\* is replaced by defaultData, any other by { ...defaultData, ...existing }.
initializeStorage(persisted, ok) ==
    IF DOMAIN persisted = {}
    THEN saveData(persisted, defaultData, ok)
    ELSE saveData(persisted,
                  [k \in DocKeys \cup DOMAIN persisted |->
                      IF k \in DOMAIN persisted THEN persisted[k] ELSE defaultData[k]],
                  ok)

\* importData(data): saveData(data), nothing merged
LocalStorage_importData(persisted, data, ok) == saveData(persisted, data, ok)

\* getData() as a getter sees it: the parsed document as it is persisted
getData(persisted) == persisted

BootCall(op, args, before, ok, error, ret) ==
    lastOp' = [pc |-> "done", op |-> op, args |-> args, before |-> before,
               s |-> ok, error |-> error, ret |-> ret]

\* new LocalStorage(), once per page load
NewLocalStorage ==
    /\ doc' = initializeStorage(doc, TRUE)
    /\ BootCall("initializeStorage", <<>>, doc, TRUE, FALSE, Null)
    /\ UNCHANGED <<isOnline, nextId, passes, calls, remote, sent, log, ucalls, faults, cap, auth, handlers,
                   reads, fetch, week>>

\* localStorage.importData(data.localStorage)
StoreImportData(data) ==
    /\ lastOp # Idle
    /\ data \in PartialDocs
    /\ doc' = LocalStorage_importData(doc, data, TRUE)
    /\ BootCall("importData", <<data>>, doc, TRUE, FALSE, TRUE)
    /\ UNCHANGED <<isOnline, nextId, passes, calls, remote, sent, log, ucalls, faults, cap, auth, handlers,
                   reads, fetch, week>>

\* clearAll(): removeItem, then initializeStorage on the absent document
StoreClearAll ==
    /\ lastOp # Idle
    /\ doc' = initializeStorage(EmptyObj, TRUE)
    /\ BootCall("clearAll", <<>>, doc, TRUE, FALSE, TRUE)
    /\ UNCHANGED <<isOnline, nextId, passes, calls, remote, sent, log, ucalls, faults, cap, auth, handlers,
                   reads, fetch, week>>

\* getPlansForWeek(weekStartId): data.plans[weekStartId] || {}, a TypeError
\* when data has no plans
StoreGetPlansForWeek(w) ==
    /\ lastOp # Idle
    /\ LET data == getData(doc)
           error == ~Has(data, "plans")
       IN BootCall("getPlansForWeek", <<w>>, doc, TRUE, error,
                   IF error THEN EmptyObj
                   ELSE IF Has(data.plans, w) THEN data.plans[w] ELSE EmptyObj)
    /\ UNCHANGED <<isOnline, doc, nextId, passes, calls, remote, sent, log, ucalls, faults, cap, auth, handlers,
                   reads, fetch, week>>

\* getUsers(): data.users || {}
StoreGetUsers ==
    /\ lastOp # Idle
    /\ LET data == getData(doc)
       IN BootCall("getUsers", <<>>, doc, TRUE, FALSE,
                   IF Has(data, "users") THEN data.users ELSE EmptyObj)
    /\ UNCHANGED <<isOnline, doc, nextId, passes, calls, remote, sent, log, ucalls, faults, cap, auth, handlers,
                   reads, fetch, week>>

InitBoot ==
    /\ isOnline = TRUE
    /\ doc \in PartialDocs
    /\ nextId = 1
    /\ passes = <<>>
    /\ calls = {}
    /\ remote = [users |-> seedRows, plans |-> <<>>, custom |-> <<>>, overrides |-> <<>>]
    /\ sent = <<>>
    /\ log = {}
    /\ ucalls = EmptyObj
    /\ faults = 0
    /\ cap = MaxIds
    /\ lastOp = Idle
    /\ reads = <<>>
    /\ fetch = Idle
    /\ handlers = <<>>
    /\ auth = NewAuthManager
    /\ week = Idle

NextBoot ==
    \/ NewLocalStorage
    \/ \E data \in PartialDocs : StoreImportData(data)
    \/ StoreClearAll
    \/ \E w \in Weeks : StoreGetPlansForWeek(w)
    \/ StoreGetUsers

SpecBoot == InitBoot /\ [][NextBoot]_vars

\* C23: creating the Local Store on an absent or empty document writes the
\* default document with the seed users; on an existing document every
\* top-level key it has keeps its value and every missing one gets its
\* default; and every later access (as after importData of a document that
\* lacks keys) finds the missing top-level keys backfilled with defaults, the
\* existing data kept.
C23_DefaultsBackfilled ==
    /\ (lastOp # Idle /\ lastOp.op = "initializeStorage") =>
          /\ DOMAIN lastOp.before = {} => doc = defaultData
          /\ \A k \in DOMAIN lastOp.before : doc[k] = lastOp.before[k]
          /\ \A k \in DocKeys \ DOMAIN lastOp.before : doc[k] = defaultData[k]
    /\ (lastOp # Idle /\ lastOp.op \in {"getPlansForWeek", "getUsers"}) =>
          /\ ~lastOp.error
          /\ DocKeys \subseteq DOMAIN doc
          /\ \A k \in DOMAIN lastOp.before : doc[k] = lastOp.before[k]

\* ---------------------------------------------------- computeWeekStartIST
\* Time is counted in minutes since 1970-01-01T00:00Z (a Date holds
\* milliseconds; every quantity of the function is a whole number of
\* minutes).  A date string "YYYY-MM-DD" is the record of its three numbers,
\* weekStartId "YYYYMMDD" the number the eight digits spell.
StepMinutes == 30
SampleSteps == 480

DayMinutes == 1440
\* 5.5 * 60 * 60 * 1000 ms
IST_OFFSET == 330

NoDate == [y |-> 0, m |-> 0, d |-> 0]

\* Days since the epoch of a calendar date (proleptic Gregorian, as Date has it).
DaysFromCivil(y, m, d) ==
    LET y1 == IF m <= 2 THEN y - 1 ELSE y
        era == y1 \div 400
        yoe == y1 - era * 400
        mp == IF m > 2 THEN m - 3 ELSE m + 9
        doy == (153 * mp + 2) \div 5 + d - 1
        doe == yoe * 365 + yoe \div 4 - yoe \div 100 + doy
    IN era * 146097 + doe - 719468

\* The calendar date of a day number.
CivilFromDays(z) ==
    LET z1 == z + 719468
        era == z1 \div 146097
        doe == z1 - era * 146097
        yoe == (doe - doe \div 1460 + doe \div 36524 - doe \div 146096) \div 365
        doy == doe - (365 * yoe + yoe \div 4 - yoe \div 100)
        mp == (5 * doy + 2) \div 153
        d == doy - (153 * mp + 2) \div 5 + 1
        m == IF mp < 10 THEN mp + 3 ELSE mp - 9
    IN [y |-> IF m <= 2 THEN yoe + era * 400 + 1 ELSE yoe + era * 400, m |-> m, d |-> d]

getUTCDay(t) == ((t \div DayMinutes) + 4) % 7

getUTCDate(t) == CivilFromDays(t \div DayMinutes).d

\* A slip: a day number below 1 stays in the month instead of running back
\* into the month before.
setUTCDate_noBorrow(t, n) ==
    LET c == CivilFromDays(t \div DayMinutes)
        n1 == IF n < 1 THEN 1 ELSE n
    IN (DaysFromCivil(c.y, c.m, 1) + n1 - 1) * DayMinutes + (t % DayMinutes)

\* date.setUTCDate(n): day n of the month of t, running over into the
\* neighbouring months; the time of day stays.
setUTCDate(t, n) ==
    LET c == CivilFromDays(t \div DayMinutes)
    IN (DaysFromCivil(c.y, c.m, 1) + n - 1) * DayMinutes + (t % DayMinutes)

\* new Date(overrideDateISO + 'T00:00:00.000Z')
ParseISODate(iso) == DaysFromCivil(iso.y, iso.m, iso.d) * DayMinutes

\* `${year}-${month}-${day}` of the UTC fields
FormatISODate(t) == CivilFromDays(t \div DayMinutes)

\* `${year}${month}${day}` of the UTC fields, month and day padded to two digits
FormatWeekStartId(t) ==
    LET c == CivilFromDays(t \div DayMinutes)
    IN c.y * 10000 + c.m * 100 + c.d

\* A slip: Sunday is not treated apart and maps to the Monday after it.
MondayOffset_noSunday(dayOfWeek) == -(dayOfWeek - 1)

\* dayOfWeek === 0 ? -6 : -(dayOfWeek - 1)
MondayOffset(dayOfWeek) == IF dayOfWeek = 0 THEN -6 ELSE -(dayOfWeek - 1)

computeWeekStartIST(date, overrideDateISO) ==
    LET date1 == IF overrideDateISO # NoDate THEN ParseISODate(overrideDateISO) ELSE date
        istDate == date1 + IST_OFFSET
        dayOfWeek == getUTCDay(istDate)
        mondayDate == setUTCDate(istDate, getUTCDate(istDate) + MondayOffset(dayOfWeek))
        Day(i) == setUTCDate(mondayDate, getUTCDate(mondayDate) + i)
    IN [weekStartId |-> FormatWeekStartId(mondayDate),
        headers |-> [i \in 1..7 |->
                        LET c == CivilFromDays(Day(i - 1) \div DayMinutes)
                        IN [d |-> c.d, m |-> c.m, y |-> c.y % 100]],
        dayDates |-> [i \in 1..7 |-> FormatISODate(Day(i - 1))]]

\* The instants the function is tried on: every StepMinutes over two
\* stretches, one across the end of February of a leap year and one across
\* the turn of a year.
Instants ==
    {DaysFromCivil(2024, 2, 24) * DayMinutes + k * StepMinutes : k \in 0..SampleSteps}
      \cup {DaysFromCivil(2025, 12, 27) * DayMinutes + k * StepMinutes : k \in 0..SampleSteps}

\* computeWeekStartIST(now)
ComputeWeek ==
    /\ week.pc = "start"
    /\ week' = [week EXCEPT !.pc = "computed", !.out = computeWeekStartIST(week.now, NoDate)]
    /\ UNCHANGED <<isOnline, doc, nextId, passes, calls, remote, sent, log, ucalls, faults, cap, auth, handlers,
                   lastOp, reads, fetch>>

\* computeWeekStartIST(now, dayDates[i]) with the dayDates of the first call
ComputeWeekOverride(i) ==
    /\ week.pc = "computed"
    /\ i \in 1..7
    /\ week' = [week EXCEPT !.pc = "overridden", !.i = i,
                            !.override = week.out.dayDates[i],
                            !.outOverride = computeWeekStartIST(week.now, week.out.dayDates[i])]
    /\ UNCHANGED <<isOnline, doc, nextId, passes, calls, remote, sent, log, ucalls, faults, cap, auth, handlers,
                   lastOp, reads, fetch>>

\* ---- the copy of computeWeekStartIST in the login function
\* 5.5 * 60 * 60 * 1000 ms
LoginIST_OFFSET == 330

\* A slip: the week of the server starts on Sunday.
LoginMondayOffset_sundayFirst(dayOfWeek) == -dayOfWeek

\* dayOfWeek === 0 ? -6 : -(dayOfWeek - 1)
LoginMondayOffset(dayOfWeek) == IF dayOfWeek = 0 THEN -6 ELSE -(dayOfWeek - 1)

loginComputeWeekStartIST(date, overrideDateISO) ==
    LET date1 == IF overrideDateISO # NoDate THEN ParseISODate(overrideDateISO) ELSE date
        istDate == date1 + LoginIST_OFFSET
        dayOfWeek == getUTCDay(istDate)
        mondayDate == setUTCDate(istDate, getUTCDate(istDate) + LoginMondayOffset(dayOfWeek))
    IN [weekStartId |-> FormatWeekStartId(mondayDate)]

\* The override dates tried besides the dayDates of the week itself: the
\* days from 25 February 2024 on.
OverrideDays == 9
OverrideDates == {CivilFromDays(DaysFromCivil(2024, 2, 25) + k) : k \in 0..OverrideDays}

\* computeWeekStartIST(now, d) on the client, d any override date
ComputeWeekWithOverride(d) ==
    /\ week.pc = "start"
    /\ week' = [week EXCEPT !.pc = "dated", !.override = d,
                            !.outOverride = computeWeekStartIST(week.now, d)]
    /\ UNCHANGED <<isOnline, doc, nextId, passes, calls, remote, sent, log, ucalls, faults, cap, auth, handlers,
                   lastOp, reads, fetch>>

\* computeWeekStartIST of the login function, with the arguments the client
\* computed with
LoginComputeWeek ==
    /\ week.pc # "start"
    /\ week.login.weekStartId = 0
    /\ week' = [week EXCEPT !.login = loginComputeWeekStartIST(week.now, week.override)]
    /\ UNCHANGED <<isOnline, doc, nextId, passes, calls, remote, sent, log, ucalls, faults, cap, auth, handlers,
                   lastOp, reads, fetch>>

InitWeek ==
    /\ isOnline = TRUE
    /\ doc = defaultData
    /\ nextId = 1
    /\ passes = <<>>
    /\ calls = {}
    /\ remote = [users |-> seedRows, plans |-> <<>>, custom |-> <<>>, overrides |-> <<>>]
    /\ sent = <<>>
    /\ log = {}
    /\ ucalls = EmptyObj
    /\ faults = 0
    /\ cap = MaxIds
    /\ lastOp = Idle
    /\ reads = <<>>
    /\ fetch = Idle
    /\ handlers = <<>>
    /\ auth = NewAuthManager
    /\ \E t \in Instants :
          week = [pc |-> "start", now |-> t, i |-> 0, override |-> NoDate,
                  out |-> [weekStartId |-> 0], outOverride |-> [weekStartId |-> 0],
                  login |-> [weekStartId |-> 0]]

NextWeek ==
    \/ ComputeWeek
    \/ \E i \in 1..7 : ComputeWeekOverride(i)
    \/ \E d \in OverrideDates : ComputeWeekWithOverride(d)
    \/ LoginComputeWeek

SpecWeek == InitWeek /\ [][NextWeek]_vars

\* C20: for every instant now, computeWeekStartIST(now, d) returns the
\* weekStartId of computeWeekStartIST(now) for d = dayDates[0] of that result,
\* and for every other dayDates[i] (i = 0..6) of it.
C20_WeekRoundTrip ==
    week.pc = "overridden" => week.outOverride.weekStartId = week.out.weekStartId

\* A Saturday evening UTC that is already Sunday in IST, in a week that
\* starts in one year and ends in the next, overridden with its Sunday.
C20_Witness ==
    /\ week.pc = "overridden"
    /\ week.i = 7
    /\ week.now = DaysFromCivil(2026, 1, 3) * DayMinutes + 19 * 60
    /\ week.out.weekStartId = 20251229
    /\ week.out.dayDates[7] = [y |-> 2026, m |-> 1, d |-> 4]
    /\ week.outOverride.weekStartId = 20251229

\* The day number, in the calendar shifted by +5:30, of an instant, and the
\* Monday on or before a day number (day 0 is a Thursday).
ShiftedDay(t) == (t + IST_OFFSET) \div DayMinutes
MondayOnOrBefore(D) == CHOOSE m \in (D - 6)..D : (m + 4) % 7 = 1

\* C21: for every instant, weekStartId is the YYYYMMDD date of the Monday of
\* the week that holds the instant in the calendar shifted by +5:30 (six days
\* back from a Sunday, dayOfWeek-1 days back otherwise), dayDates[0] is that
\* Monday, and dayDates[i] and headers[i] are the date of Monday+i, i = 0..6.
C21_MondayOfShiftedWeek ==
    week.pc \in {"computed", "overridden"} =>
        LET D == ShiftedDay(week.now)
            w == (D + 4) % 7
            monday == MondayOnOrBefore(D)
            Date(i) == CivilFromDays(monday + i)
        IN /\ monday = D - (IF w = 0 THEN 6 ELSE w - 1)
           /\ week.out.weekStartId = Date(0).y * 10000 + Date(0).m * 100 + Date(0).d
           /\ \A i \in 0..6 :
                 /\ week.out.dayDates[i + 1] = Date(i)
                 /\ week.out.headers[i + 1] =
                       [d |-> Date(i).d, m |-> Date(i).m, y |-> Date(i).y % 100]

\* A Saturday evening UTC that is Sunday 3 March 2024 in IST: the Monday is
\* 26 February, and the week runs over the 29th into March.
C21_Witness ==
    /\ week.pc = "computed"
    /\ week.now = DaysFromCivil(2024, 3, 2) * DayMinutes + 19 * 60
    /\ week.out.weekStartId = 20240226
    /\ week.out.dayDates[4] = [y |-> 2024, m |-> 2, d |-> 29]
    /\ week.out.dayDates[7] = [y |-> 2024, m |-> 3, d |-> 3]
    /\ week.out.headers[7] = [d |-> 3, m |-> 3, y |-> 24]

\* C22: for every instant and every override date, computeWeekStartIST of the
\* client and computeWeekStartIST of the login function return the same
\* weekStartId.
C22_ClientServerSameWeek ==
    week.login.weekStartId # 0 =>
        week.login.weekStartId =
            (IF week.pc = "computed" THEN week.out ELSE week.outOverride).weekStartId

\* Both computed for a Sunday in IST without override, and both computed with
\* the override 2024-03-03, a Sunday, at an instant of another week.
C22_Witness ==
    /\ week.login.weekStartId = 20240226
    /\ \/ /\ week.pc = "computed"
          /\ week.now = DaysFromCivil(2024, 3, 2) * DayMinutes + 19 * 60
          /\ week.out.weekStartId = 20240226
       \/ /\ week.pc = "dated"
          /\ week.override = [y |-> 2024, m |-> 3, d |-> 3]
          /\ week.now = DaysFromCivil(2025, 12, 29) * DayMinutes
          /\ week.outOverride.weekStartId = 20240226

\* ------------------------------------------- the handlers, step by step
\* A handler invocation awaits the rows of its sheet and then awaits its
\* write; the invocations of concurrent requests interleave at these awaits.
\* Nothing in the handlers takes a lock on the sheet.
MaxHandlers == 3

ServerRequests ==
    {[ep |-> "users/add", body |-> [name |-> n, password |-> "1234", isAdmin |-> FALSE]] :
        n \in {"New User", "Sahil Sharma"}}
    \cup {[ep |-> "plans/set", body |-> [weekStart |-> W1, name |-> "Sahil Sharma", locationsArray |-> l]] :
        l \in {LA, LB}}

SheetOf(req) == IF req.ep = "users/add" THEN "users" ELSE "plans"

\* The request reaches its handler, which has validated it and loaded the sheet.
HandlerArrives(req) ==
    /\ Len(handlers) < MaxHandlers
    /\ handlers' = Append(handlers, [req |-> req, pc |-> "arrived", rows |-> <<>>, status |-> 0])
    /\ UNCHANGED <<isOnline, doc, nextId, passes, calls, remote, sent, log, ucalls, faults, cap, auth, aside>>

\* const rows = await sheet.getRows()
HandlerGetRows(h) ==
    /\ h \in DOMAIN handlers
    /\ handlers[h].pc = "arrived"
    /\ handlers' = [handlers EXCEPT ![h].pc = "rows", ![h].rows = remote[SheetOf(handlers[h].req)]]
    /\ UNCHANGED <<isOnline, doc, nextId, passes, calls, remote, sent, log, ucalls, faults, cap, auth, aside>>

\* The write the handler decides on from the rows it read, made on the sheet
\* as it is now: addRow appends, existingRow.save() rewrites that row.
WriteOn(sheetNow, rowsRead, req) ==
    LET name == SheetOf(req)
        asRead == [users |-> <<>>, plans |-> <<>>, custom |-> <<>>, overrides |-> <<>>]
        result == Handler([asRead EXCEPT ![name] = rowsRead], req)
        after == result.remote[name]
    IN IF Len(after) > Len(rowsRead) THEN Append(sheetNow, after[Len(after)])
       ELSE [k \in DOMAIN sheetNow |->
                IF k \in DOMAIN after /\ after[k] # rowsRead[k] THEN after[k] ELSE sheetNow[k]]

StatusOn(rowsRead, req) ==
    LET name == SheetOf(req)
        asRead == [users |-> <<>>, plans |-> <<>>, custom |-> <<>>, overrides |-> <<>>]
    IN Handler([asRead EXCEPT ![name] = rowsRead], req).status

\* await sheet.addRow(...) / await existingRow.save(), or the 409 answer.
HandlerWrites(h) ==
    /\ h \in DOMAIN handlers
    /\ handlers[h].pc = "rows"
    /\ LET inv == handlers[h]
           name == SheetOf(inv.req)
       IN /\ remote' = [remote EXCEPT ![name] = WriteOn(remote[name], inv.rows, inv.req)]
          /\ handlers' = [handlers EXCEPT ![h].pc = "done", ![h].status = StatusOn(inv.rows, inv.req)]
    /\ UNCHANGED <<isOnline, doc, nextId, passes, calls, sent, log, ucalls, faults, cap, auth, aside>>

InitServer == Start /\ cap = MaxIds

NextServer ==
    \/ \E req \in ServerRequests : HandlerArrives(req)
    \/ \E h \in 1..MaxHandlers : HandlerGetRows(h)
    \/ \E h \in 1..MaxHandlers : HandlerWrites(h)

SpecServer == InitServer /\ [][NextServer]_vars

\* C38: the users sheet never holds two rows of one name and the plans sheet
\* never holds two rows of one (week_start, name), also when the handlers of
\* two requests for the same key run concurrently.
C38_RemoteKeysUnique ==
    /\ \A j, k \in DOMAIN remote.users :
          remote.users[j].name = remote.users[k].name => j = k
    /\ \A j, k \in DOMAIN remote.plans :
          (remote.plans[j].week_start = remote.plans[k].week_start
           /\ remote.plans[j].name = remote.plans[k].name) => j = k

\* ------------------------------------------------ AuthManager, call by call
\* AuthManager.addUser and removeUser with the checks they make before they
\* reach apiClient, for an administrator, a plain user and nobody logged in.
MaxAuthIds == 2

\* /^[0-9]{4}$/.test(password): the passwords used here that are four digits
\* are those of FourDigits.
isValidPassword(password) == password \in FourDigits

AuthPasswords == {"1234", "12345"}
AuthNames == {"Asha Rao", "Sahil Sharma", Admin}
Logins == {<<Admin, "9211">>, <<"Sahil Sharma", "8371">>, <<Admin, "1234">>}

\* A slip: any logged-in user passes for an administrator.
hasAdminAccess_loggedInOnly(a) == a.isLoggedIn

hasAdminAccess(a) == a.isLoggedIn /\ a.isAdmin

\* POST login: 401 for an unknown name or a wrong password.
loginHandler(rem, body) ==
    IF Falsy(body.name) \/ Falsy(body.password) THEN [status |-> 400, isAdmin |-> FALSE]
    ELSE LET Match(row) == row.name = body.name
             k == FirstIndex(rem.users, Match)
         IN IF k = 0 THEN [status |-> 401, isAdmin |-> FALSE]
            ELSE IF rem.users[k].password # body.password THEN [status |-> 401, isAdmin |-> FALSE]
            ELSE [status |-> 200, isAdmin |-> rem.users[k].is_admin]

\* APIClient.login: the local users decide first; online the server's answer
\* is returned, and a request that throws falls back to the local answer.
\* The plans sheet stays empty here, so the merge of plansForCurrentWeek
\* writes nothing.
APIClient_login(d, rem, online, name, password, net) ==
    IF ~Has(d.users, name) \/ d.users[name].password # password
    THEN [ok |-> FALSE, isAdmin |-> FALSE]
    ELSE LET answer == loginHandler(rem, [name |-> name, password |-> password])
         IN IF online /\ net = "deliver" /\ answer.status = 200
            THEN [ok |-> TRUE, isAdmin |-> answer.isAdmin]
            ELSE IF online /\ net = "notok" THEN [ok |-> FALSE, isAdmin |-> FALSE]
            ELSE [ok |-> TRUE, isAdmin |-> d.users[name].isAdmin]

AuthManager_login(a, d, rem, online, name, password, net) ==
    IF Falsy(name) \/ Falsy(password) \/ ~isValidPassword(password) THEN a
    ELSE LET response == APIClient_login(d, rem, online, name, password, net)
         IN IF ~response.ok THEN a
            ELSE [currentUser |-> name, isLoggedIn |-> TRUE, isAdmin |-> response.isAdmin]

\* The error AuthManager.addUser throws before it reaches apiClient, if any.
addUserError(a, d, name, password) ==
    IF ~hasAdminAccess(a) THEN "Admin access required"
    ELSE IF Falsy(name) \/ Falsy(password) THEN "Name and password are required"
    ELSE IF ~isValidPassword(password) THEN "Password must be 4 digits"
    ELSE IF Has(d.users, name) THEN "User already exists"
    ELSE "none"

\* The error AuthManager.removeUser throws before it reaches apiClient, if any.
removeUserError(a, name) ==
    IF ~hasAdminAccess(a) THEN "Admin access required"
    ELSE IF Falsy(name) THEN "User name is required"
    ELSE IF name = a.currentUser THEN "Cannot delete currently logged in user"
    ELSE "none"

\* One call of AuthManager: thrown out with its error, or passed on to the
\* call r of APIClient.
AuthCall(op, args, error, r, action, payload) ==
    /\ lastOp' = [pc |-> "done", op |-> op, args |-> args, auth |-> auth, before |-> doc,
                  error |-> error]
    /\ IF error # "none"
       THEN UNCHANGED <<doc, nextId, calls, ucalls, passes>>
       ELSE /\ nextId <= cap
            /\ r.req # NoReq => Cardinality(calls) < MaxInflight
            /\ doc' = r.doc
            /\ nextId' = nextId + 1
            /\ calls' = IF r.req = NoReq THEN calls ELSE calls \cup {[id |-> nextId, req |-> r.req]}
            /\ ucalls' = Put(ucalls, nextId, [action |-> action, payload |-> payload, online |-> isOnline,
                                              outcome |-> IF r.req = NoReq THEN "offline" ELSE "pending"])
            /\ passes' = [k \in DOMAIN passes |-> [passes[k] EXCEPT !.quiet = FALSE]]
    /\ UNCHANGED <<isOnline, remote, sent, log, faults, cap, auth, handlers, reads, fetch, week>>

AuthAddUser(name, password, isAdmin) ==
    /\ lastOp.pc \in {"idle", "done"}
    /\ AuthCall("addUser", [name |-> name, password |-> password],
                addUserError(auth, doc, name, password),
                APIClient_addUser(doc, nextId, isOnline, name, password, isAdmin, AllSaved),
                "user_update",
                [name |-> name, userData |-> [password |-> password, isAdmin |-> isAdmin]])

AuthRemoveUser(name) ==
    /\ lastOp.pc \in {"idle", "done"}
    /\ AuthCall("removeUser", [name |-> name, password |-> Null],
                removeUserError(auth, name),
                APIClient_deleteUser(doc, nextId, isOnline, name, AllSaved),
                "user_delete", [name |-> name])

AuthLogin(name, password, net) ==
    /\ ~auth.isLoggedIn
    /\ auth' = AuthManager_login(auth, doc, remote, isOnline, name, password, net)
    /\ UNCHANGED <<isOnline, doc, nextId, passes, calls, remote, sent, log, ucalls, faults, cap,
                   handlers, aside>>

AuthLogout ==
    /\ auth.isLoggedIn
    /\ auth' = NewAuthManager
    /\ UNCHANGED <<isOnline, doc, nextId, passes, calls, remote, sent, log, ucalls, faults, cap,
                   handlers, aside>>

InitAuth == Start /\ cap = MaxAuthIds

NextAuth ==
    \/ OnlineEvent
    \/ OfflineEvent
    \/ SyncTrigger
    \/ \E p \in 1..MaxPasses, net \in Net : PassResponse(p, net)
    \/ \E l \in Logins, net \in Net : AuthLogin(l[1], l[2], net)
    \/ AuthLogout
    \/ \E n \in AuthNames, p \in AuthPasswords : AuthAddUser(n, p, FALSE)
    \/ \E n \in AuthNames : AuthRemoveUser(n)
    \/ \E id \in 1..MaxAuthIds, net \in Net : UserResponse(id, net)

SpecAuth == InitAuth /\ [][NextAuth]_vars

\* The call c of AuthManager is one of: made without an admin login, addUser
\* of a name the Local Store has or of a password that is not four digits,
\* removeUser of the logged-in user.
Refusable(c) ==
    \/ ~(c.auth.isLoggedIn /\ c.auth.isAdmin)
    \/ c.op = "addUser" /\ (Has(c.before.users, c.args.name) \/ c.args.password \notin FourDigits)
    \/ c.op = "removeUser" /\ c.args.name = c.auth.currentUser

\* C39: addUser and removeUser without an admin login, addUser of a name that
\* exists locally or of a password that is not 4 digits, and removeUser of the
\* logged-in user fail with an error, leave the Local Store and the sync
\* queue as they were and issue no request.
C39_RefusedCallsChangeNothing ==
    [][(lastOp' # lastOp /\ Refusable(lastOp')) =>
          /\ lastOp'.error # "none"
          /\ doc' = doc
          /\ calls' = calls
          /\ sent' = sent]_vars

C39_Witness ==
    /\ lastOp.pc = "done"
    /\ Refusable(lastOp)
    /\ lastOp.auth.isLoggedIn
    /\ lastOp.error # "none"
    /\ Len(doc.syncQueue) > 0

====
